---- MODULE Spec2Model ----
(***************************************************************************)
(* Content realization (library/src/layout/mod.rs) and the numbering       *)
(* pattern engine (library/src/meta/numbering.rs).                         *)
(*                                                                         *)
(* The builder is modelled as the traversal Builder::accept performs over  *)
(* a content tree: one step per leaf element, one step for entering and    *)
(* one for leaving a styled subtree, and the head and tail of              *)
(* realize_root / realize_block.                                           *)
(***************************************************************************)
EXTENDS Integers, Sequences, FiniteSets, TLC

\* Bounds of the exploration.
MaxInput == 3
MaxDepth == 1

(***************************************************************************)
(* Content                                                                 *)
(***************************************************************************)

\* A content node: element kind plus the fields the builder reads.
Content(k) ==
    [kind |-> k, id |-> 0, weak |-> FALSE, tight |-> FALSE, block |-> FALSE,
     amount |-> "", kids |-> <<>>]

Leaf(k, n) == [Content(k) EXCEPT !.id = n]

PagebreakElem(w, n) == [Content("pagebreak") EXCEPT !.weak = w, !.id = n]

EquationElem(body) == [Content("equation") EXCEPT !.kids = <<body>>]

VElem(a) == [Content("v") EXCEPT !.amount = a]

ParElem(children) == [Content("par") EXCEPT !.kids = children]

FlowElem(children) == [Content("flow") EXCEPT !.kids = children]

PageElem(body) == [Content("page") EXCEPT !.kids = <<body>>]

DocumentElem(pages) == [Content("document") EXCEPT !.kids = pages]

ItemKinds == {"list_item", "enum_item", "term_item"}

ContainerKinds == {"list", "enum", "terms"}

ContainerOf(k) ==
    IF k = "list_item" THEN "list" ELSE IF k = "enum_item" THEN "enum" ELSE "terms"

\* Element kinds with the block-level layout capability (dyn Layout).
LayoutKinds == {"block", "list", "enum", "terms", "rect", "flow", "equation"}

CanLayout(c) == c.kind \in LayoutKinds

\* Element kinds with the root-level layout capability (dyn LayoutRoot).
CanLayoutRoot(c) == c.kind = "document"

\* Element kinds with the math layout capability (dyn LayoutMath).
CanLayoutMath(c) == c.kind \in {"math", "equation"}

\* Show rules: a heading is rewritten into a block, once.
applicable(c) == c.kind = "heading"

realize(c) == [c EXCEPT !.kind = "block"]

(***************************************************************************)
(* Style chains and the style-scoped builders                              *)
(***************************************************************************)

\* A local style map is the set of marker elements whose properties it sets;
\* a style chain is the stack of the local maps pushed so far.
DefaultChain == <<>>

interruption(local, marker) == marker \in local

None == [some |-> FALSE, chain |-> DefaultChain]

Some(chain) == [some |-> TRUE, chain |-> chain]

Entry(c, s) == [c |-> c, s |-> s]

RECURSIVE Contents(_)
Contents(entries) ==
    IF entries = <<>> THEN <<>>
    ELSE <<entries[1].c>> \o Contents(Tail(entries))

Min(a, b) == IF a < b THEN a ELSE b

CommonLen(s, t) ==
    LET n == Min(Len(s), Len(t))
        agree == {k \in 0..n : \A i \in 1..k : s[i] = t[i]}
    IN CHOOSE k \in agree : \A j \in agree : j <= k

RECURSIVE SharedPrefix(_, _)
SharedPrefix(entries, acc) ==
    IF entries = <<>> THEN acc
    ELSE SharedPrefix(Tail(entries),
                      SubSeq(acc, 1, CommonLen(acc, entries[1].s)))

\* StyleVecBuilder: entries pushed with the chain active at push time.
StyleVecBuilder_push(b, c, s) == Append(b, Entry(c, s))

StyleVecBuilder_finish(b) ==
    [children |-> Contents(b),
     shared |-> IF b = <<>> THEN DefaultChain ELSE SharedPrefix(b, b[1].s)]

\* BehavedBuilder: append-only, metadata does not count as structure.
BehavedBuilder_push(b, c, s) == Append(b, Entry(c, s))

BehavedBuilder_is_empty(b) == b = <<>>

BehavedBuilder_is_basically_empty(b) ==
    \A i \in 1..Len(b) : b[i].c.kind = "meta"

BehavedBuilder_finish(b) == StyleVecBuilder_finish(b)

(***************************************************************************)
(* Scope builders                                                          *)
(***************************************************************************)

NoDoc == [on |-> FALSE, pages |-> <<>>, keep_next |-> FALSE]

DocBuilder_default == [on |-> TRUE, pages |-> <<>>, keep_next |-> TRUE]

FlowBuilder_default == [elems |-> <<>>, last_was_parbreak |-> FALSE]

ParBuilder_default == <<>>

ListBuilder_default == [items |-> <<>>, tight |-> TRUE, staged |-> <<>>]

Taken(st) == [ok |-> TRUE, st |-> st]

Rejected(st) == [ok |-> FALSE, st |-> st]

\* Variant: pushing a page leaves keep_next as it was.
DocBuilder_accept_keeps(d, c, s) ==
    IF c.kind = "pagebreak" THEN
        Taken([d EXCEPT !.keep_next = ~c.weak])
    ELSE IF c.kind = "page" THEN
        Taken([d EXCEPT !.pages = StyleVecBuilder_push(@, c, s)])
    ELSE Rejected(d)

\* Variant: the DocBuilder takes whatever reaches it.
DocBuilder_accept_all(d, c, s) ==
    IF c.kind = "pagebreak" THEN
        Taken([d EXCEPT !.keep_next = ~c.weak])
    ELSE IF c.kind = "page" THEN
        Taken([d EXCEPT !.pages = StyleVecBuilder_push(@, c, s),
                        !.keep_next = FALSE])
    ELSE Taken(d)

\* Variant: every pagebreak keeps the following page.
DocBuilder_accept_strong(d, c, s) ==
    IF c.kind = "pagebreak" THEN
        Taken([d EXCEPT !.keep_next = TRUE])
    ELSE IF c.kind = "page" THEN
        Taken([d EXCEPT !.pages = StyleVecBuilder_push(@, c, s),
                        !.keep_next = FALSE])
    ELSE Rejected(d)

DocBuilder_accept(d, c, s) ==
    IF c.kind = "pagebreak" THEN
        Taken([d EXCEPT !.keep_next = ~c.weak])
    ELSE IF c.kind = "page" THEN
        Taken([d EXCEPT !.pages = StyleVecBuilder_push(@, c, s),
                        !.keep_next = FALSE])
    ELSE Rejected(d)

\* Variant: every tight list gets the attachment spacing, after a parbreak
\* too.
FlowBuilder_accept_attach_always(f, c, s) ==
    IF c.kind = "parbreak" THEN
        Taken([f EXCEPT !.last_was_parbreak = TRUE])
    ELSE IF c.kind \in {"v", "colbreak", "meta"} THEN
        Taken([elems |-> BehavedBuilder_push(f.elems, c, s),
               last_was_parbreak |-> FALSE])
    ELSE IF CanLayout(c) \/ c.kind = "par" THEN
        Taken([elems |-> BehavedBuilder_push(
                            BehavedBuilder_push(
                                BehavedBuilder_push(
                                    IF c.kind \in ContainerKinds /\ c.tight
                                    THEN BehavedBuilder_push(
                                             f.elems, VElem("list_attach"), s)
                                    ELSE f.elems,
                                    VElem("above"), s),
                                c, s),
                            VElem("below"), s),
               last_was_parbreak |-> FALSE])
    ELSE Rejected([f EXCEPT !.last_was_parbreak = FALSE])

\* Variant: the spacing below the element is left out.
FlowBuilder_accept_no_below(f, c, s) ==
    IF c.kind = "parbreak" THEN
        Taken([f EXCEPT !.last_was_parbreak = TRUE])
    ELSE IF c.kind \in {"v", "colbreak", "meta"} THEN
        Taken([elems |-> BehavedBuilder_push(f.elems, c, s),
               last_was_parbreak |-> FALSE])
    ELSE IF CanLayout(c) \/ c.kind = "par" THEN
        Taken([elems |-> BehavedBuilder_push(
                            BehavedBuilder_push(f.elems, VElem("above"), s),
                            c, s),
               last_was_parbreak |-> FALSE])
    ELSE Rejected([f EXCEPT !.last_was_parbreak = FALSE])

\* Variant: paragraphs are not taken by the flow.
FlowBuilder_accept_no_par(f, c, s) ==
    IF c.kind = "parbreak" THEN
        Taken([f EXCEPT !.last_was_parbreak = TRUE])
    ELSE IF c.kind \in {"v", "colbreak", "meta"} THEN
        Taken([elems |-> BehavedBuilder_push(f.elems, c, s),
               last_was_parbreak |-> FALSE])
    ELSE IF CanLayout(c) THEN
        Taken([elems |-> BehavedBuilder_push(
                            BehavedBuilder_push(
                                BehavedBuilder_push(f.elems, VElem("above"), s),
                                c, s),
                            VElem("below"), s),
               last_was_parbreak |-> FALSE])
    ELSE Rejected([f EXCEPT !.last_was_parbreak = FALSE])

FlowBuilder_accept(f, c, s) ==
    IF c.kind = "parbreak" THEN
        Taken([f EXCEPT !.last_was_parbreak = TRUE])
    ELSE
        LET last_was_parbreak == f.last_was_parbreak
            f1 == [f EXCEPT !.last_was_parbreak = FALSE]
        IN
        IF c.kind \in {"v", "colbreak", "meta"} THEN
            Taken([f1 EXCEPT !.elems = BehavedBuilder_push(@, c, s)])
        ELSE IF CanLayout(c) \/ c.kind = "par" THEN
            LET is_tight_list == c.kind \in ContainerKinds /\ c.tight
                e0 == IF ~last_was_parbreak /\ is_tight_list
                      THEN BehavedBuilder_push(f1.elems, VElem("list_attach"), s)
                      ELSE f1.elems
                e1 == BehavedBuilder_push(e0, VElem("above"), s)
                e2 == BehavedBuilder_push(e1, c, s)
                e3 == BehavedBuilder_push(e2, VElem("below"), s)
            IN Taken([f1 EXCEPT !.elems = e3])
        ELSE Rejected(f1)

InlineKinds == {"space", "text", "h", "linebreak", "smartquote", "box"}

ParBuilder_accept(p, c, s) ==
    IF c.kind = "meta" THEN
        IF ~BehavedBuilder_is_basically_empty(p)
        THEN Taken(BehavedBuilder_push(p, c, s))
        ELSE Rejected(p)
    ELSE IF c.kind \in InlineKinds \/ (c.kind = "equation" /\ ~c.block) THEN
        Taken(BehavedBuilder_push(p, c, s))
    ELSE Rejected(p)

ParBuilder_finish(p) ==
    LET fin == BehavedBuilder_finish(p)
    IN [c |-> ParElem(fin.children), s |-> fin.shared]

\* Variant: staging a parbreak loosens the list at once.
ListBuilder_accept_loose(l, c, s) ==
    IF l.items # <<>> /\ c.kind \in {"space", "parbreak"} THEN
        Taken([l EXCEPT !.staged = Append(@, Entry(c, s)),
                        !.tight = @ /\ c.kind # "parbreak"])
    ELSE IF c.kind \in ItemKinds
            /\ (l.items = <<>> \/ l.items[1].c.kind = c.kind) THEN
        Taken([items |-> StyleVecBuilder_push(l.items, c, s),
               tight |-> l.tight
                         /\ \A i \in 1..Len(l.staged) :
                                l.staged[i].c.kind # "parbreak",
               staged |-> <<>>])
    ELSE Rejected(l)

\* Variant: the staged entries are dropped without looking at them.
ListBuilder_accept_blind(l, c, s) ==
    IF l.items # <<>> /\ c.kind \in {"space", "parbreak"} THEN
        Taken([l EXCEPT !.staged = Append(@, Entry(c, s))])
    ELSE IF c.kind \in ItemKinds
            /\ (l.items = <<>> \/ l.items[1].c.kind = c.kind) THEN
        Taken([items |-> StyleVecBuilder_push(l.items, c, s),
               tight |-> l.tight,
               staged |-> <<>>])
    ELSE Rejected(l)

\* Variant: an item of any kind joins the open list.
ListBuilder_accept_mixed(l, c, s) ==
    IF l.items # <<>> /\ c.kind \in {"space", "parbreak"} THEN
        Taken([l EXCEPT !.staged = Append(@, Entry(c, s))])
    ELSE IF c.kind \in ItemKinds THEN
        Taken([items |-> StyleVecBuilder_push(l.items, c, s),
               tight |-> l.tight
                         /\ \A i \in 1..Len(l.staged) :
                                l.staged[i].c.kind # "parbreak",
               staged |-> <<>>])
    ELSE Rejected(l)

ListBuilder_accept(l, c, s) ==
    IF l.items # <<>> /\ c.kind \in {"space", "parbreak"} THEN
        Taken([l EXCEPT !.staged = Append(@, Entry(c, s))])
    ELSE IF c.kind \in ItemKinds
            /\ (l.items = <<>> \/ l.items[1].c.kind = c.kind) THEN
        Taken([items |-> StyleVecBuilder_push(l.items, c, s),
               tight |-> l.tight
                         /\ \A i \in 1..Len(l.staged) :
                                l.staged[i].c.kind # "parbreak",
               staged |-> <<>>])
    ELSE Rejected(l)

ListBuilder_finish(l) ==
    LET fin == StyleVecBuilder_finish(l.items)
        item == fin.children[1]
    IN [c |-> [Content(ContainerOf(item.kind)) EXCEPT
                   !.kids = fin.children, !.tight = l.tight],
        s |-> fin.shared]

(***************************************************************************)
(* Builder                                                                 *)
(***************************************************************************)

NoErr == "none"

ErrPagebreak == "pagebreaks are not allowed inside of containers"

ErrDocContainer == "document set rules are not allowed inside of containers"

ErrDocContent == "document set rules must appear before any content"

ErrPageContainer == "page configuration is not allowed inside of containers"

ErrNotAllowed(c) == c.kind \o " is not allowed here"

\* What a scope builder did with an element: recorded in the order of the
\* calls, with keep_next as DocBuilder::accept left it and with which of
\* the builders held nothing at that moment.
Did(b, op, c) ==
    [b EXCEPT !.log = Append(@, [op |-> op, c |-> c,
                                 keep |-> b.doc.keep_next,
                                 list_empty |-> b.list.items = <<>>
                                                /\ b.list.staged = <<>>,
                                 par_empty |-> BehavedBuilder_is_empty(b.par),
                                 flow_empty |->
                                     BehavedBuilder_is_empty(b.flow.elems)])]

Builder_new(top) ==
    [doc |-> IF top THEN DocBuilder_default ELSE NoDoc,
     flow |-> FlowBuilder_default,
     par |-> ParBuilder_default,
     list |-> ListBuilder_default,
     err |-> NoErr,
     log |-> <<>>,
     depth |-> 0,
     deepest |-> 0,
     accepts |-> 0]

RECURSIVE accept(_, _, _)
RECURSIVE accept_staged(_, _)
RECURSIVE interrupt_list(_)
RECURSIVE interrupt_par(_)
RECURSIVE interrupt_page(_, _)

\* Builder::accept once interrupt_page has run: the DocBuilder or the bail.
accept_doc(b, content, styles) ==
    IF b.err # NoErr THEN b
    ELSE
    LET d == DocBuilder_accept(b.doc, content, styles) IN
    IF b.doc.on /\ d.ok THEN Did([b EXCEPT !.doc = d.st], "doc", content)
    ELSE IF content.kind = "pagebreak" THEN [b EXCEPT !.err = ErrPagebreak]
    ELSE [b EXCEPT !.err = ErrNotAllowed(content)]

\* Builder::accept once interrupt_par has run: the FlowBuilder, then the page.
accept_flow(b, content, styles) ==
    IF b.err # NoErr THEN b
    ELSE
    LET f == FlowBuilder_accept(b.flow, content, styles)
        keep == content.kind = "pagebreak" /\ ~content.weak
    IN
    IF f.ok THEN Did([b EXCEPT !.flow = f.st], "flow", content)
    ELSE accept_doc(interrupt_page([b EXCEPT !.flow = f.st],
                                   IF keep THEN Some(styles) ELSE None),
                    content, styles)

\* Variant: the FlowBuilder is tried while the paragraph is still open.
accept_par_unflushed(b, content, styles) ==
    IF b.err # NoErr THEN b
    ELSE
    LET l == ListBuilder_accept(b.list, content, styles)
        p == ParBuilder_accept(b.par, content, styles)
    IN
    IF l.ok THEN Did([b EXCEPT !.list = l.st], "list", content)
    ELSE IF p.ok THEN Did([b EXCEPT !.par = p.st], "par", content)
    ELSE accept_flow(b, content, styles)

\* Builder::accept once interrupt_list has run: the ListBuilder again, then
\* the ParBuilder.
accept_par(b, content, styles) ==
    IF b.err # NoErr THEN b
    ELSE
    LET l == ListBuilder_accept(b.list, content, styles)
        p == ParBuilder_accept(b.par, content, styles)
    IN
    IF l.ok THEN Did([b EXCEPT !.list = l.st], "list", content)
    ELSE IF p.ok THEN Did([b EXCEPT !.par = p.st], "par", content)
    ELSE accept_flow(interrupt_par(b), content, styles)

\* Builder::accept after the math wrap: the show rule, then the ListBuilder.
\* Variant: the open list is not interrupted before the paragraph is tried.
accept_list_uninterrupted(b, content, styles) ==
    IF applicable(content) THEN accept(b, realize(content), styles)
    ELSE
    LET l == ListBuilder_accept(b.list, content, styles) IN
    IF l.ok THEN Did([b EXCEPT !.list = l.st], "list", content)
    ELSE accept_par(b, content, styles)

accept_list(b, content, styles) ==
    IF applicable(content) THEN accept(b, realize(content), styles)
    ELSE
    LET l == ListBuilder_accept(b.list, content, styles) IN
    IF l.ok THEN Did([b EXCEPT !.list = l.st], "list", content)
    ELSE accept_par(interrupt_list(b), content, styles)

\* A call of Builder::accept begins: one more call, one level deeper.
Enter(b) ==
    [b EXCEPT !.depth = @ + 1,
              !.deepest = IF b.depth + 1 > @ THEN b.depth + 1 ELSE @,
              !.accepts = @ + 1]

\* A call of Builder::accept returns, with Ok or with an error.
Leave(b) == [b EXCEPT !.depth = @ - 1]

accept(b, content, styles) ==
    Leave(accept_list(Enter(b),
                      IF CanLayoutMath(content) /\ content.kind # "equation"
                      THEN EquationElem(content) ELSE content,
                      styles))

accept_staged(b, staged) ==
    IF staged = <<>> \/ b.err # NoErr THEN b
    ELSE accept_staged(accept(b, staged[1].c, staged[1].s), Tail(staged))

\* Variant: the staged entries are re-accepted but also left in the list.
interrupt_list_keeps_staged(b) ==
    IF b.list.items # <<>> THEN
        LET fin == ListBuilder_finish([b.list EXCEPT !.staged = <<>>])
        IN accept_staged(accept([b EXCEPT !.list =
                                    [ListBuilder_default EXCEPT
                                        !.staged = b.list.staged]],
                                fin.c, fin.s),
                         b.list.staged)
    ELSE b

\* Variant: the staged entries are re-accepted before the container.
interrupt_list_staged_first(b) ==
    IF b.list.items # <<>> THEN
        LET fin == ListBuilder_finish([b.list EXCEPT !.staged = <<>>])
        IN accept(accept_staged([b EXCEPT !.list = ListBuilder_default],
                                b.list.staged),
                  fin.c, fin.s)
    ELSE b

interrupt_list(b) ==
    IF b.list.items # <<>> THEN
        LET fin == ListBuilder_finish([b.list EXCEPT !.staged = <<>>])
        IN accept_staged(accept([b EXCEPT !.list = ListBuilder_default],
                                fin.c, fin.s),
                         b.list.staged)
    ELSE b

\* interrupt_par once interrupt_list has run.
finish_par(b) ==
    IF b.err # NoErr THEN b
    ELSE IF ~BehavedBuilder_is_empty(b.par) THEN
        LET fin == ParBuilder_finish(b.par)
        IN accept([b EXCEPT !.par = ParBuilder_default], fin.c, fin.s)
    ELSE b

\* Variant: only the list is flushed, the paragraph is left open.
interrupt_par_lazy(b) == interrupt_list(b)

interrupt_par(b) == finish_par(interrupt_list(b))

\* Variant: an empty flow never makes a page.
finish_page_non_empty(b, styles) ==
    IF b.err # NoErr THEN b
    ELSE IF ~b.doc.on THEN b
    ELSE IF ~BehavedBuilder_is_empty(b.flow.elems) THEN
        LET fin == BehavedBuilder_finish(b.flow.elems)
            st == IF fin.shared = DefaultChain
                  THEN (IF styles.some THEN styles.chain ELSE DefaultChain)
                  ELSE fin.shared
            page == PageElem(FlowElem(fin.children))
        IN accept([b EXCEPT !.flow = FlowBuilder_default], page, st)
    ELSE b

\* interrupt_page once interrupt_par has run.
finish_page(b, styles) ==
    IF b.err # NoErr THEN b
    ELSE IF ~b.doc.on THEN b
    ELSE IF ~BehavedBuilder_is_empty(b.flow.elems)
            \/ (b.doc.keep_next /\ styles.some) THEN
        LET fin == BehavedBuilder_finish(b.flow.elems)
            st == IF fin.shared = DefaultChain
                  THEN (IF styles.some THEN styles.chain ELSE DefaultChain)
                  ELSE fin.shared
            page == PageElem(FlowElem(fin.children))
        IN accept([b EXCEPT !.flow = FlowBuilder_default], page, st)
    ELSE b

interrupt_page(b, styles) == finish_page(interrupt_par(b), styles)

\* Variant: the checks for a missing DocBuilder are left out.
interrupt_style_unchecked(b, local, outer) ==
    IF interruption(local, "document") THEN
        IF ~outer.some
           /\ (~BehavedBuilder_is_empty(b.flow.elems)
               \/ ~BehavedBuilder_is_empty(b.par)
               \/ b.list.items # <<>>)
        THEN [b EXCEPT !.err = ErrDocContent]
        ELSE b
    ELSE IF interruption(local, "page") THEN interrupt_page(b, outer)
    ELSE IF interruption(local, "par") \/ interruption(local, "align") THEN
        interrupt_par(b)
    ELSE IF interruption(local, "list") \/ interruption(local, "enum")
            \/ interruption(local, "terms") THEN
        interrupt_list(b)
    ELSE b

\* Variant: the page interruption is handled after the document checks
\* passed, not only in their absence.
interrupt_style_every(b, local, outer) ==
    IF interruption(local, "document") /\ ~b.doc.on
    THEN [b EXCEPT !.err = ErrDocContainer]
    ELSE IF interruption(local, "document") /\ ~outer.some
            /\ (~BehavedBuilder_is_empty(b.flow.elems)
                \/ ~BehavedBuilder_is_empty(b.par)
                \/ b.list.items # <<>>)
    THEN [b EXCEPT !.err = ErrDocContent]
    ELSE IF interruption(local, "page") THEN
        IF ~b.doc.on THEN [b EXCEPT !.err = ErrPageContainer]
        ELSE interrupt_page(b, outer)
    ELSE IF interruption(local, "par") \/ interruption(local, "align") THEN
        interrupt_par(b)
    ELSE IF interruption(local, "list") \/ interruption(local, "enum")
            \/ interruption(local, "terms") THEN
        interrupt_list(b)
    ELSE b

\* Variant: only the flow is looked at when a document set rule is entered.
interrupt_style_flow_only(b, local, outer) ==
    IF interruption(local, "document") THEN
        IF ~b.doc.on THEN [b EXCEPT !.err = ErrDocContainer]
        ELSE IF ~outer.some /\ ~BehavedBuilder_is_empty(b.flow.elems)
        THEN [b EXCEPT !.err = ErrDocContent]
        ELSE b
    ELSE IF interruption(local, "page") THEN
        IF ~b.doc.on THEN [b EXCEPT !.err = ErrPageContainer]
        ELSE interrupt_page(b, outer)
    ELSE IF interruption(local, "par") \/ interruption(local, "align") THEN
        interrupt_par(b)
    ELSE IF interruption(local, "list") \/ interruption(local, "enum")
            \/ interruption(local, "terms") THEN
        interrupt_list(b)
    ELSE b

interrupt_style(b, local, outer) ==
    IF interruption(local, "document") THEN
        IF ~b.doc.on THEN [b EXCEPT !.err = ErrDocContainer]
        ELSE IF ~outer.some
                /\ (~BehavedBuilder_is_empty(b.flow.elems)
                    \/ ~BehavedBuilder_is_empty(b.par)
                    \/ b.list.items # <<>>)
        THEN [b EXCEPT !.err = ErrDocContent]
        ELSE b
    ELSE IF interruption(local, "page") THEN
        IF ~b.doc.on THEN [b EXCEPT !.err = ErrPageContainer]
        ELSE interrupt_page(b, outer)
    ELSE IF interruption(local, "par") \/ interruption(local, "align") THEN
        interrupt_par(b)
    ELSE IF interruption(local, "list") \/ interruption(local, "enum")
            \/ interruption(local, "terms") THEN
        interrupt_list(b)
    ELSE b

(***************************************************************************)
(* Numbering: text as sequences of characters                              *)
(***************************************************************************)

\* Bounds of the numbering inputs.
MaxPatLen == 3
MaxNumbers == 2
MaxNumber == 4000

LowerLetters ==
    <<"a", "b", "c", "d", "e", "f", "g", "h", "i", "j", "k", "l", "m",
      "n", "o", "p", "q", "r", "s", "t", "u", "v", "w", "x", "y", "z">>

UpperLetters ==
    <<"A", "B", "C", "D", "E", "F", "G", "H", "I", "J", "K", "L", "M",
      "N", "O", "P", "Q", "R", "S", "T", "U", "V", "W", "X", "Y", "Z">>

Digits == <<"0", "1", "2", "3", "4", "5", "6", "7", "8", "9">>

IndexOf(seq, x) == CHOOSE i \in 1..Len(seq) : seq[i] = x

InSeq(seq, x) == \E i \in 1..Len(seq) : seq[i] = x

is_uppercase(ch) == InSeq(UpperLetters, ch)

to_ascii_lowercase(ch) ==
    IF InSeq(UpperLetters, ch) THEN LowerLetters[IndexOf(UpperLetters, ch)] ELSE ch

to_ascii_uppercase(ch) ==
    IF InSeq(LowerLetters, ch) THEN UpperLetters[IndexOf(LowerLetters, ch)] ELSE ch

\* char::to_lowercase on the characters of the roman table: the letters
\* map to their lower case, the combining overline to itself.
to_lowercase(ch) == to_ascii_lowercase(ch)

\* The decimal digits of n (the Display of usize).
RECURSIVE Decimal(_)
Decimal(n) ==
    IF n < 10 THEN <<Digits[n + 1]>>
    ELSE Decimal(n \div 10) \o <<Digits[(n % 10) + 1]>>

Lower == "lower"

Upper == "upper"

Cases == {Lower, Upper}

Arabic == "arabic"

Letter == "letter"

Roman == "roman"

Symbol == "symbol"

NumberingKinds == {Arabic, Letter, Roman, Symbol}

NoKind == "none"

\* Variant: i is not a counter character.
NumberingKind_from_char_no_roman(ch) ==
    IF ch = "1" THEN Arabic
    ELSE IF ch = "a" THEN Letter
    ELSE IF ch = "*" THEN Symbol
    ELSE NoKind

NumberingKind_from_char(ch) ==
    IF ch = "1" THEN Arabic
    ELSE IF ch = "a" THEN Letter
    ELSE IF ch = "i" THEN Roman
    ELSE IF ch = "*" THEN Symbol
    ELSE NoKind

NumberingKind_to_char(kind) ==
    IF kind = Arabic THEN "1"
    ELSE IF kind = Letter THEN "a"
    ELSE IF kind = Roman THEN "i"
    ELSE "*"

\* The combining overline U+0305 that follows a letter of the roman table.
Overline == "U+0305"

\* Variant: the table without the subtractive entries.
ROMAN_additive ==
    << [name |-> <<"M", Overline>>, value |-> 1000000],
       [name |-> <<"D", Overline>>, value |-> 500000],
       [name |-> <<"C", Overline>>, value |-> 100000],
       [name |-> <<"L", Overline>>, value |-> 50000],
       [name |-> <<"X", Overline>>, value |-> 10000],
       [name |-> <<"V", Overline>>, value |-> 5000],
       [name |-> <<"M">>, value |-> 1000],
       [name |-> <<"D">>, value |-> 500],
       [name |-> <<"C">>, value |-> 100],
       [name |-> <<"L">>, value |-> 50],
       [name |-> <<"X">>, value |-> 10],
       [name |-> <<"V">>, value |-> 5],
       [name |-> <<"I">>, value |-> 1] >>

ROMAN ==
    << [name |-> <<"M", Overline>>, value |-> 1000000],
       [name |-> <<"D", Overline>>, value |-> 500000],
       [name |-> <<"C", Overline>>, value |-> 100000],
       [name |-> <<"L", Overline>>, value |-> 50000],
       [name |-> <<"X", Overline>>, value |-> 10000],
       [name |-> <<"V", Overline>>, value |-> 5000],
       [name |-> <<"I", Overline, "V", Overline>>, value |-> 4000],
       [name |-> <<"M">>, value |-> 1000],
       [name |-> <<"C", "M">>, value |-> 900],
       [name |-> <<"D">>, value |-> 500],
       [name |-> <<"C", "D">>, value |-> 400],
       [name |-> <<"C">>, value |-> 100],
       [name |-> <<"X", "C">>, value |-> 90],
       [name |-> <<"L">>, value |-> 50],
       [name |-> <<"X", "L">>, value |-> 40],
       [name |-> <<"X">>, value |-> 10],
       [name |-> <<"I", "X">>, value |-> 9],
       [name |-> <<"V">>, value |-> 5],
       [name |-> <<"I", "V">>, value |-> 4],
       [name |-> <<"I">>, value |-> 1] >>

\* Variant: the symbols without the double bar.
SYMBOLS_five == <<"*", "U+2020", "U+2021", "U+00A7", "U+00B6">>

\* The symbols *, dagger, double dagger, section, pilcrow, double bar.
SYMBOLS == <<"*", "U+2020", "U+2021", "U+00A7", "U+00B6", "U+2016">>

\* The loop of the Letter arm: push the digit of numbering % 26, divide by
\* 26, stop at zero; the letters are reversed afterwards.
RECURSIVE LetterLoop(_, _, _)
LetterLoop(numbering, case, letters) ==
    LET ch == LowerLetters[(numbering % 26) + 1]
        pushed == Append(letters,
                         IF case = Lower THEN ch ELSE to_ascii_uppercase(ch))
        rest == numbering \div 26
    IN IF rest = 0 THEN pushed ELSE LetterLoop(rest, case, pushed)

Reverse(seq) == [i \in 1..Len(seq) |-> seq[Len(seq) + 1 - i]]

CaseName(name, case) ==
    [i \in 1..Len(name) |-> IF case = Lower THEN to_lowercase(name[i]) ELSE name[i]]

\* The loops of the Roman arm: for each table entry in order, subtract its
\* value while it fits.
RECURSIVE RomanLoop(_, _, _, _)
RomanLoop(numbering, case, t, fmt) ==
    IF t > Len(ROMAN) THEN fmt
    ELSE IF numbering >= ROMAN[t].value THEN
        RomanLoop(numbering - ROMAN[t].value, case, t,
                  fmt \o CaseName(ROMAN[t].name, case))
    ELSE RomanLoop(numbering, case, t + 1, fmt)

\* Variant: zero is rendered as the digit 0 by every kind.
NumberingKind_apply_zero_digit(kind, numbering, case) ==
    IF kind = Arabic \/ numbering = 0 THEN Decimal(numbering)
    ELSE IF kind = Letter THEN Reverse(LetterLoop(numbering - 1, case, <<>>))
    ELSE IF kind = Roman THEN RomanLoop(numbering, case, 1, <<>>)
    ELSE LET symbol == SYMBOLS[((numbering - 1) % Len(SYMBOLS)) + 1]
             amount == ((numbering - 1) \div Len(SYMBOLS)) + 1
         IN [i \in 1..amount |-> symbol]

\* Variant: the symbol arm has no case for zero.
NumberingKind_apply_symbol_unguarded(kind, numbering, case) ==
    IF kind = Arabic THEN Decimal(numbering)
    ELSE IF kind = Letter THEN
        IF numbering = 0 THEN <<"-">>
        ELSE Reverse(LetterLoop(numbering - 1, case, <<>>))
    ELSE IF kind = Roman THEN
        IF numbering = 0 THEN <<"N">>
        ELSE RomanLoop(numbering, case, 1, <<>>)
    ELSE LET symbol == SYMBOLS[((numbering - 1) % Len(SYMBOLS)) + 1]
             amount == ((numbering - 1) \div Len(SYMBOLS)) + 1
         IN [i \in 1..amount |-> symbol]

NumberingKind_apply(kind, numbering, case) ==
    IF kind = Arabic THEN Decimal(numbering)
    ELSE IF kind = Letter THEN
        IF numbering = 0 THEN <<"-">>
        ELSE Reverse(LetterLoop(numbering - 1, case, <<>>))
    ELSE IF kind = Roman THEN
        IF numbering = 0 THEN <<"N">>
        ELSE RomanLoop(numbering, case, 1, <<>>)
    ELSE
        IF numbering = 0 THEN <<"-">>
        ELSE LET symbol == SYMBOLS[((numbering - 1) % Len(SYMBOLS)) + 1]
                 amount == ((numbering - 1) \div Len(SYMBOLS)) + 1
             IN [i \in 1..amount |-> symbol]

\* A pattern: pieces (prefix, kind, case), a suffix, and the trimmed flag.
Piece(prefix, kind, case) == [prefix |-> prefix, kind |-> kind, case |-> case]

NoPattern == [pieces |-> <<>>, suffix |-> <<>>, trimmed |-> FALSE]

ErrInvalidPattern == "invalid numbering pattern"

\* What a push_str appended to fmt, and from which part of the pattern.
Push(part, text) == [part |-> part, text |-> text]

PushNumber(p, n) ==
    Push("number", NumberingKind_apply(p.kind, n, p.case))

\* The first loop of apply: pieces zipped with the numbers.
RECURSIVE ApplyPaired(_, _, _, _)
ApplyPaired(pattern, numbers, i, fmt) ==
    IF i > Len(pattern.pieces) \/ i > Len(numbers) THEN fmt
    ELSE LET p == pattern.pieces[i]
             f1 == IF i > 1 \/ ~pattern.trimmed
                   THEN Append(fmt, Push("prefix", p.prefix)) ELSE fmt
         IN ApplyPaired(pattern, numbers, i + 1,
                        Append(f1, PushNumber(p, numbers[i])))

\* The second loop of apply: the last piece repeated for the numbers left.
RECURSIVE ApplyRest(_, _, _, _)
ApplyRest(pattern, numbers, i, fmt) ==
    IF pattern.pieces = <<>> \/ i > Len(numbers) THEN fmt
    ELSE LET p == pattern.pieces[Len(pattern.pieces)]
             f1 == IF p.prefix = <<>>
                   THEN Append(fmt, Push("suffix", pattern.suffix))
                   ELSE Append(fmt, Push("prefix", p.prefix))
         IN ApplyRest(pattern, numbers, i + 1,
                      Append(f1, PushNumber(p, numbers[i])))

\* Variant: the numbers beyond the last piece are not rendered.
NumberingPattern_apply_paired(pattern, numbers) ==
    LET paired == ApplyPaired(pattern, numbers, 1, <<>>)
    IN IF ~pattern.trimmed
       THEN Append(paired, Push("suffix", pattern.suffix))
       ELSE paired

\* Variant: the extra numbers are always preceded by the last prefix.
RECURSIVE ApplyRestPrefixed(_, _, _, _)
ApplyRestPrefixed(pattern, numbers, i, fmt) ==
    IF pattern.pieces = <<>> \/ i > Len(numbers) THEN fmt
    ELSE LET p == pattern.pieces[Len(pattern.pieces)]
         IN ApplyRestPrefixed(pattern, numbers, i + 1,
                Append(Append(fmt, Push("prefix", p.prefix)),
                       PushNumber(p, numbers[i])))

NumberingPattern_apply_prefixed(pattern, numbers) ==
    LET paired == ApplyPaired(pattern, numbers, 1, <<>>)
        n == Min(Len(pattern.pieces), Len(numbers))
        rest == ApplyRestPrefixed(pattern, numbers, n + 1, paired)
    IN IF ~pattern.trimmed
       THEN Append(rest, Push("suffix", pattern.suffix))
       ELSE rest

\* Variant: the suffix is appended to trimmed patterns too.
NumberingPattern_apply_suffixed(pattern, numbers) ==
    LET paired == ApplyPaired(pattern, numbers, 1, <<>>)
        n == Min(Len(pattern.pieces), Len(numbers))
        rest == ApplyRest(pattern, numbers, n + 1, paired)
    IN Append(rest, Push("suffix", pattern.suffix))

\* NumberingPattern::apply, as the sequence of pushes onto fmt.
NumberingPattern_apply(pattern, numbers) ==
    LET paired == ApplyPaired(pattern, numbers, 1, <<>>)
        n == Min(Len(pattern.pieces), Len(numbers))
        rest == ApplyRest(pattern, numbers, n + 1, paired)
    IN IF ~pattern.trimmed
       THEN Append(rest, Push("suffix", pattern.suffix))
       ELSE rest

\* The string a sequence of pushes builds.
RECURSIVE Text(_)
Text(fmt) == IF fmt = <<>> THEN <<>> ELSE fmt[1].text \o Text(Tail(fmt))

\* The loop of from_str over the characters of the pattern string.
RECURSIVE FromStrLoop(_, _, _, _)
FromStrLoop(pattern, i, handled, pieces) ==
    IF i > Len(pattern) THEN [pieces |-> pieces, handled |-> handled]
    ELSE LET c == pattern[i]
             kind == NumberingKind_from_char(to_ascii_lowercase(c))
         IN IF kind = NoKind THEN FromStrLoop(pattern, i + 1, handled, pieces)
            ELSE FromStrLoop(pattern, i + 1, i,
                    Append(pieces,
                           Piece(SubSeq(pattern, handled + 1, i - 1), kind,
                                 IF is_uppercase(c) THEN Upper ELSE Lower)))

\* NumberingPattern::from_str; handled counts the characters consumed.
NumberingPattern_from_str(pattern) ==
    LET walked == FromStrLoop(pattern, 1, 0, <<>>)
        suffix == SubSeq(pattern, walked.handled + 1, Len(pattern))
    IN IF walked.pieces = <<>>
       THEN [ok |-> FALSE, err |-> ErrInvalidPattern, pattern |-> NoPattern]
       ELSE [ok |-> TRUE, err |-> NoErr,
             pattern |-> [pieces |-> walked.pieces, suffix |-> suffix,
                          trimmed |-> FALSE]]

\* Numbering::trimmed on a pattern.
Numbering_trimmed(pattern) == [pattern EXCEPT !.trimmed = TRUE]

\* The loop of cast_to_value: each piece's prefix, then its counter
\* character in the piece's case.
RECURSIVE IntoValueLoop(_, _, _)
IntoValueLoop(pieces, i, pat) ==
    IF i > Len(pieces) THEN pat
    ELSE LET p == pieces[i]
             c == NumberingKind_to_char(p.kind)
         IN IntoValueLoop(pieces, i + 1,
                Append(pat \o p.prefix,
                       IF p.case = Upper THEN to_ascii_uppercase(c) ELSE c))

\* Variant: the counter characters are written in lower case.
NumberingPattern_into_value_lower(v) ==
    LET pat == IntoValueLoop(v.pieces, 1, <<>>) \o v.suffix
    IN [k \in 1..Len(pat) |-> to_ascii_lowercase(pat[k])]

\* cast_to_value! for NumberingPattern: the pattern string of a pattern.
NumberingPattern_into_value(v) ==
    IntoValueLoop(v.pieces, 1, <<>>) \o v.suffix

(***************************************************************************)
(* Layout::measure and the stability provider                              *)
(***************************************************************************)

\* Bound on the identifiers a layout generates.
MaxHashes == 2

\* The stability provider: the identifiers generated so far and the saved
\* checkpoints; restore undoes what was generated since the last save.
StabilityProvider_default == [hashes |-> <<>>, checkpoints |-> <<>>]

StabilityProvider_save(p) ==
    [p EXCEPT !.checkpoints = Append(@, Len(p.hashes))]

StabilityProvider_restore(p) ==
    IF p.checkpoints = <<>> THEN p
    ELSE [hashes |-> SubSeq(p.hashes, 1, p.checkpoints[Len(p.checkpoints)]),
          checkpoints |-> SubSeq(p.checkpoints, 1, Len(p.checkpoints) - 1)]

\* Generating n identifiers.
RECURSIVE StabilityProvider_locate(_, _)
StabilityProvider_locate(p, n) ==
    IF n = 0 THEN p
    ELSE StabilityProvider_locate(
            [p EXCEPT !.hashes = Append(@, Len(p.hashes) + 1)], n - 1)

\* SourceResult<Fragment>
NoOutcome == [ok |-> FALSE, value |-> "none"]

Ok(v) == [ok |-> TRUE, value |-> v]

Err(e) == [ok |-> FALSE, value |-> e]

LayoutOutcomes == {Ok("fragment"), Err("layout error")}

(***************************************************************************)
(* Corners<Option<T>>: casting from a Value and converting to a Value      *)
(***************************************************************************)

\* Bounds of the values cast: a dictionary has at most MaxKeys keys and
\* the values of T are 1..MaxValue.
MaxKeys == 4

MaxValue == 2

\* Option<T>: None, or Some(v) written v, for the values v >= 1 of T.
NoneT == 0

\* A dictionary entry that is not a T.
NotT == -1

\* Option::or
Or(a, b) == IF a # NoneT THEN a ELSE b

\* The keys Dict::finish is called with.
ExpectedKeys ==
    {"top-left", "top-right", "bottom-right", "bottom-left",
     "left", "top", "right", "bottom", "rest"}

\* Values: a dictionary, a T, or anything else.
DictValue(d) == [tag |-> "dict", dict |-> d, v |-> NoneT]

TValue(v) == [tag |-> "t", dict |-> <<>>, v |-> v]

OtherValue == [tag |-> "other", dict |-> <<>>, v |-> NoneT]

Corners(tl, tr, br, bl) ==
    [top_left |-> tl, top_right |-> tr, bottom_right |-> br, bottom_left |-> bl]

Corners_splat(v) == Corners(v, v, v, v)

Corners_is_uniform(c) ==
    /\ c.top_left = c.top_right
    /\ c.top_right = c.bottom_right
    /\ c.bottom_right = c.bottom_left

CastOk(c) == [ok |-> TRUE, corners |-> c]

CastErr == [ok |-> FALSE, corners |-> Corners_splat(NoneT)]

\* Dict::take(key).ok(): the entry of the key, if there is one.
Dict_take(d, key) == IF key \in DOMAIN d THEN d[key] ELSE NoneT

\* Dict::finish(expected): fails when a key is left that was not taken.
Dict_finish(d, expected) == DOMAIN d \subseteq expected

\* The closure take of cast: None for a missing key, Some(T) for an entry
\* that is a T; an entry that is no T makes the cast fail.
Takes(d, key) == key \notin DOMAIN d \/ d[key] # NotT

\* Cast for Corners<Option<T>>::cast
Corners_cast(v) ==
    IF v.tag = "dict" THEN
        LET d == v.dict
            rest == Dict_take(d, "rest")
            left == Or(Dict_take(d, "left"), rest)
            top == Or(Dict_take(d, "top"), rest)
            right == Or(Dict_take(d, "right"), rest)
            bottom == Or(Dict_take(d, "bottom"), rest)
        IN IF ~(\A key \in ExpectedKeys : Takes(d, key)) THEN CastErr
           ELSE IF ~Dict_finish(d, ExpectedKeys) THEN CastErr
           ELSE CastOk(Corners(
                    Or(Or(Dict_take(d, "top-left"), top), left),
                    Or(Or(Dict_take(d, "top-right"), top), right),
                    Or(Or(Dict_take(d, "bottom-right"), bottom), right),
                    Or(Or(Dict_take(d, "bottom-left"), bottom), left)))
    ELSE IF v.tag = "t" THEN CastOk(Corners_splat(v.v))
    ELSE CastErr

\* The dictionary of the entries that are Some.
DictOf(entries) ==
    LET present == {key \in DOMAIN entries : entries[key] # NoneT}
    IN [key \in present |-> entries[key]]

\* From<Corners<Option<T>>> for Value
Corners_into_value(c) ==
    IF Corners_is_uniform(c) /\ c.top_left # NoneT THEN TValue(c.top_left)
    ELSE DictValue(DictOf([key \in {"top-left", "top-right", "bottom-right",
                                    "bottom-left"} |->
                              IF key = "top-left" THEN c.top_left
                              ELSE IF key = "top-right" THEN c.top_right
                              ELSE IF key = "bottom-right" THEN c.bottom_right
                              ELSE c.bottom_left]))

(***************************************************************************)
(* State: one realize_root / realize_block call, one numbering call        *)
(***************************************************************************)

VARIABLES
    pc,         \* "start", "accept", "done", "failed"
    top,        \* Builder::new(.., top): whether a DocBuilder exists
    content,    \* the content handed to realize_root / realize_block
    doc, flow, par, list,   \* the fields of Builder
    styles,     \* the style chain of the styled subtree being traversed
    err,        \* the diagnostic the call failed with, or NoErr
    log,        \* what the scope builders accepted, in call order
    deepest,    \* how deep the calls of Builder::accept nested in the last step
    accepts,    \* how many calls of Builder::accept the last step made
    inp,        \* the leaf elements and styled wrappers traversed so far
    result,     \* the realized content returned
    npc,        \* numbering: "idle", "str", "parsed", "invalid", "applied",
                \* "kind", "rendered"
    pattern_str,    \* the pattern string handed to from_str
    pattern,        \* the parsed NumberingPattern
    numbers,        \* the numbers handed to apply
    fmt,            \* the pushes apply made
    kind, case, number,     \* the arguments of NumberingKind::apply
    rendered,       \* what NumberingKind::apply returned
    mpc,        \* measure: "idle", "saved", "laid", "returned"
    provider,   \* vt.provider, the stability provider
    before,     \* the provider as it was when measure was called
    calls,      \* the calls measure made, in order
    outcome,    \* what self.layout returned
    returned,   \* what measure returned
    cpc,        \* corners: "idle", "value", "corners", "converted", "cast",
                \* "back"
    value,      \* the Value handed to cast
    corners,    \* the Corners<Option<T>> converted to a Value
    cast_result \* what cast returned

bvars == <<doc, flow, par, list, err, log, deepest, accepts>>

nvars == <<npc, pattern_str, pattern, numbers, fmt, kind, case, number, rendered>>

rvars == <<pc, top, content, doc, flow, par, list, styles, err, log, inp, result,
          deepest, accepts>>

mvars == <<mpc, provider, before, calls, outcome, returned>>

cvars == <<cpc, value, corners, cast_result>>

vars == <<rvars, nvars, mvars, cvars>>

\* The builder a step starts from: no call of Builder::accept is running.
B == [doc |-> doc, flow |-> flow, par |-> par, list |-> list,
      err |-> err, log |-> log, depth |-> 0, deepest |-> 0, accepts |-> 0]

SetBuilder(b) ==
    /\ doc' = b.doc
    /\ flow' = b.flow
    /\ par' = b.par
    /\ list' = b.list
    /\ err' = b.err
    /\ log' = b.log
    /\ deepest' = b.deepest
    /\ accepts' = b.accepts

LeafEv(c) == [ev |-> "leaf", c |-> c, map |-> {}]

EnterEv(m) == [ev |-> "enter", c |-> Content("styled"), map |-> m]

ExitEv(m) == [ev |-> "exit", c |-> Content("styled"), map |-> m]

\* The elements a content tree is made of.
LeafKinds ==
    {"text", "space", "parbreak", "list_item", "enum_item", "term_item",
     "block", "heading", "math", "meta", "document", "page"}

Leaves(n) ==
    {Leaf(k, n) : k \in LeafKinds} \cup {PagebreakElem(w, n) : w \in BOOLEAN}

\* The local style maps of styled subtrees.
LocalMaps ==
    {{"text"}, {"document"}, {"page"}, {"document", "page"}, {"par"}, {"list"}}

\* The contents realization is entered with: a sequence (or styled) node,
\* whose elements the traversal visits one by one, or a single element.
RootContents ==
    {Content("sequence")}
        \cup {Leaf(k, 1) : k \in {"document", "block", "rect", "heading"}}

NoResult == Content("none")

NumberingIdle ==
    /\ npc = "idle"
    /\ pattern_str = <<>>
    /\ pattern = NoPattern
    /\ numbers = <<>>
    /\ fmt = <<>>
    /\ kind = Arabic
    /\ case = Lower
    /\ number = 0
    /\ rendered = <<>>

CornersIdle ==
    /\ cpc = "idle"
    /\ value = OtherValue
    /\ corners = Corners_splat(NoneT)
    /\ cast_result = CastErr

MeasureIdle ==
    /\ mpc = "idle"
    /\ provider = StabilityProvider_default
    /\ before = StabilityProvider_default
    /\ calls = <<>>
    /\ outcome = NoOutcome
    /\ returned = NoOutcome

Init ==
    /\ NumberingIdle
    /\ MeasureIdle
    /\ CornersIdle
    /\ pc = "start"
    /\ top = FALSE
    /\ content = NoResult
    /\ doc = NoDoc
    /\ flow = FlowBuilder_default
    /\ par = ParBuilder_default
    /\ list = ListBuilder_default
    /\ styles = DefaultChain
    /\ err = NoErr
    /\ log = <<>>
    /\ deepest = 0
    /\ accepts = 0
    /\ inp = <<>>
    /\ result = NoResult

\* Builder::new followed by builder.accept(content): a single element is
\* accepted at once, the elements of a sequence are visited by AcceptElem.
Build(c, isTop) ==
    LET b0 == Builder_new(isTop)
        b == IF c.kind = "sequence" THEN b0 ELSE accept(b0, c, DefaultChain)
    IN
    /\ SetBuilder(b)
    /\ inp' = IF c.kind = "sequence" THEN <<>> ELSE <<LeafEv(c)>>
    /\ pc' = IF b.err = NoErr THEN "accept" ELSE "failed"
    /\ result' = result

\* Variant: anything without an applicable show rule is passed through.
realize_root_enter_any ==
    /\ pc = "start"
    /\ UNCHANGED cvars
    /\ \E c \in RootContents :
        /\ content' = c
        /\ top' = TRUE
        /\ styles' = DefaultChain
        /\ UNCHANGED <<nvars, mvars>>
        /\ IF ~applicable(c)
           THEN /\ pc' = "done"
                /\ result' = c
                /\ UNCHANGED <<bvars, inp>>
           ELSE Build(c, TRUE)

\* realize_root, up to and including the first builder.accept.
realize_root_enter ==
    /\ pc = "start"
    /\ UNCHANGED cvars
    /\ \E c \in RootContents :
        /\ content' = c
        /\ top' = TRUE
        /\ styles' = DefaultChain
        /\ UNCHANGED <<nvars, mvars>>
        /\ IF CanLayoutRoot(c) /\ ~applicable(c)
           THEN /\ pc' = "done"
                /\ result' = c
                /\ UNCHANGED <<bvars, inp>>
           ELSE Build(c, TRUE)

\* Shape primitives are realized again even though they can be laid out.
IsShape(c) == c.kind \in {"rect", "square", "ellipse", "circle", "image"}

\* Variant: shape primitives are passed through like other block-level
\* elements.
realize_block_enter_shapes ==
    /\ pc = "start"
    /\ UNCHANGED cvars
    /\ \E c \in RootContents :
        /\ content' = c
        /\ top' = FALSE
        /\ styles' = DefaultChain
        /\ UNCHANGED <<nvars, mvars>>
        /\ IF CanLayout(c) /\ ~applicable(c)
           THEN /\ pc' = "done"
                /\ result' = c
                /\ UNCHANGED <<bvars, inp>>
           ELSE Build(c, FALSE)

\* realize_block, up to and including the first builder.accept.
realize_block_enter ==
    /\ pc = "start"
    /\ UNCHANGED cvars
    /\ \E c \in RootContents :
        /\ content' = c
        /\ top' = FALSE
        /\ styles' = DefaultChain
        /\ UNCHANGED <<nvars, mvars>>
        /\ IF CanLayout(c) /\ ~IsShape(c) /\ ~applicable(c)
           THEN /\ pc' = "done"
                /\ result' = c
                /\ UNCHANGED <<bvars, inp>>
           ELSE Build(c, FALSE)

Traversing == pc = "accept" /\ content.kind = "sequence"

\* Variant: the traversal goes on after an element failed.
AcceptElem_continues ==
    /\ Traversing
    /\ UNCHANGED cvars
    /\ Len(inp) < MaxInput
    /\ \E c \in Leaves(Len(inp) + 1) :
        LET b == accept(B, c, styles) IN
        /\ SetBuilder(b)
        /\ inp' = Append(inp, LeafEv(c))
        /\ pc' = "accept"
    /\ UNCHANGED <<top, content, styles, result, nvars, mvars>>

\* Builder::accept on the next element of a sequence.
AcceptElem ==
    /\ Traversing
    /\ UNCHANGED cvars
    /\ Len(inp) < MaxInput
    /\ \E c \in Leaves(Len(inp) + 1) :
        LET b == accept(B, c, styles) IN
        /\ SetBuilder(b)
        /\ inp' = Append(inp, LeafEv(c))
        /\ pc' = IF b.err = NoErr THEN "accept" ELSE "failed"
    /\ UNCHANGED <<top, content, styles, result, nvars, mvars>>

\* Builder::styled up to the recursive accept: extend the chain and
\* interrupt for the local map.
StyledEnter ==
    /\ Traversing
    /\ UNCHANGED cvars
    /\ Len(inp) < MaxInput
    /\ Len(styles) < MaxDepth
    /\ \E m \in LocalMaps :
        LET b == interrupt_style(B, m, None) IN
        /\ SetBuilder(b)
        /\ styles' = Append(styles, m)
        /\ inp' = Append(inp, EnterEv(m))
        /\ pc' = IF b.err = NoErr THEN "accept" ELSE "failed"
    /\ UNCHANGED <<top, content, result, nvars, mvars>>

\* Builder::styled after the recursive accept returned.
StyledExit ==
    /\ Traversing
    /\ UNCHANGED cvars
    /\ styles # DefaultChain
    /\ LET m == styles[Len(styles)]
           b == interrupt_style(B, m, Some(styles))
       IN
        /\ SetBuilder(b)
        /\ styles' = SubSeq(styles, 1, Len(styles) - 1)
        /\ inp' = Append(inp, ExitEv(m))
        /\ pc' = IF b.err = NoErr THEN "accept" ELSE "failed"
    /\ UNCHANGED <<top, content, result, nvars, mvars>>

\* realize_root after builder.accept returned.
realize_root_finish ==
    /\ pc = "accept"
    /\ UNCHANGED cvars
    /\ top
    /\ styles = DefaultChain
    /\ LET b == interrupt_page(B, Some(DefaultChain)) IN
        /\ SetBuilder(b)
        /\ IF b.err = NoErr
           THEN /\ pc' = "done"
                /\ result' = DocumentElem(StyleVecBuilder_finish(b.doc.pages).children)
           ELSE /\ pc' = "failed"
                /\ result' = result
    /\ UNCHANGED <<top, content, styles, inp, nvars, mvars>>

\* realize_block after builder.accept returned.
realize_block_finish ==
    /\ pc = "accept"
    /\ UNCHANGED cvars
    /\ ~top
    /\ styles = DefaultChain
    /\ LET b == interrupt_par(B) IN
        /\ SetBuilder(b)
        /\ IF b.err = NoErr
           THEN /\ pc' = "done"
                /\ result' = FlowElem(BehavedBuilder_finish(b.flow.elems).children)
           ELSE /\ pc' = "failed"
                /\ result' = result
    /\ UNCHANGED <<top, content, styles, inp, nvars, mvars>>

\* The providers measure is called with.
Providers ==
    {StabilityProvider_locate(p, n) :
        p \in {StabilityProvider_default,
               StabilityProvider_save(StabilityProvider_default)},
        n \in 0..MaxHashes}

\* Layout::measure up to the call of self.layout: vt.provider.save().
measure_enter ==
    /\ pc = "start"
    /\ UNCHANGED cvars
    /\ pc' = "measure"
    /\ mpc' = "saved"
    /\ \E p \in Providers :
        /\ before' = p
        /\ provider' = StabilityProvider_save(p)
    /\ calls' = Append(calls, "save")
    /\ UNCHANGED <<outcome, returned>>
    /\ UNCHANGED <<top, content, styles, result, bvars, inp, nvars>>

\* self.layout(vt, styles, regions): generates identifiers and returns a
\* fragment or an error.
layout ==
    /\ mpc = "saved"
    /\ UNCHANGED cvars
    /\ mpc' = "laid"
    /\ \E n \in 0..MaxHashes : provider' = StabilityProvider_locate(provider, n)
    /\ \E r \in LayoutOutcomes : outcome' = r
    /\ calls' = Append(calls, "layout")
    /\ UNCHANGED <<before, returned, rvars, nvars>>

\* Variant: the error is propagated at once, as with the ? operator.
measure_exit_on_ok ==
    /\ mpc = "laid"
    /\ UNCHANGED cvars
    /\ mpc' = "returned"
    /\ IF outcome.ok
       THEN /\ provider' = StabilityProvider_restore(provider)
            /\ calls' = Append(calls, "restore")
       ELSE UNCHANGED <<provider, calls>>
    /\ returned' = outcome
    /\ pc' = "done"
    /\ UNCHANGED <<before, outcome>>
    /\ UNCHANGED <<top, content, styles, result, bvars, inp, nvars>>

\* Layout::measure after self.layout returned: vt.provider.restore(), then
\* the result.
measure_exit ==
    /\ mpc = "laid"
    /\ UNCHANGED cvars
    /\ mpc' = "returned"
    /\ provider' = StabilityProvider_restore(provider)
    /\ calls' = Append(calls, "restore")
    /\ returned' = outcome
    /\ pc' = "done"
    /\ UNCHANGED <<before, outcome>>
    /\ UNCHANGED <<top, content, styles, result, bvars, inp, nvars>>

Next ==
    \/ realize_root_enter
    \/ realize_block_enter
    \/ AcceptElem
    \/ StyledEnter
    \/ StyledExit
    \/ realize_root_finish
    \/ realize_block_finish
    \/ measure_enter
    \/ layout
    \/ measure_exit

Spec == Init /\ [][Next]_vars

(***************************************************************************)
(* Numbering calls                                                         *)
(***************************************************************************)

\* The characters pattern strings are drawn from.
PatChars == {"1", "a", "A", "i", "I", "*", "(", ")"}

RECURSIVE Strings(_, _)
Strings(chars, n) ==
    IF n = 0 THEN {<<>>}
    ELSE LET shorter == Strings(chars, n - 1)
         IN shorter \cup {Append(str, ch) : str \in shorter, ch \in chars}

\* The numbers apply is called with.
NumberSamples == {0, 2, 28}

\* The calls of the documentation example: "1.1)" on (1, 2, 3) and "1.a.i"
\* on (1, 2).
DocPatterns == {<<"1", ".", "1", ")">>, <<"1", ".", "a", ".", "i">>}

PatternStrings == Strings(PatChars, MaxPatLen) \cup DocPatterns

NumberLists ==
    Strings(NumberSamples, MaxNumbers) \cup {<<1, 2, 3>>, <<1, 2>>, <<4>>}

\* Numbers that reach the overlined entries of the roman table, rendered
\* as roman numerals only.
LargeNumbers == {5000, 9000, 49999, 1000000}

InitNum ==
    /\ MeasureIdle
    /\ CornersIdle
    /\ pc = "idle"
    /\ top = FALSE
    /\ content = NoResult
    /\ doc = NoDoc
    /\ flow = FlowBuilder_default
    /\ par = ParBuilder_default
    /\ list = ListBuilder_default
    /\ styles = DefaultChain
    /\ err = NoErr
    /\ log = <<>>
    /\ deepest = 0
    /\ accepts = 0
    /\ inp = <<>>
    /\ result = NoResult
    /\ pattern = NoPattern
    /\ fmt = <<>>
    /\ rendered = <<>>
    /\ \/ /\ npc = "str"
          /\ pattern_str \in PatternStrings
          /\ numbers = <<>>
          /\ kind = Arabic /\ case = Lower /\ number = 0
       \/ /\ npc = "kind"
          /\ pattern_str = <<>>
          /\ numbers = <<>>
          /\ kind \in NumberingKinds
          /\ case \in Cases
          /\ number \in 0..MaxNumber
                          \cup (IF kind = Roman THEN LargeNumbers ELSE {})

\* str.parse::<NumberingPattern>()
from_str ==
    /\ npc = "str"
    /\ UNCHANGED cvars
    /\ LET parsed == NumberingPattern_from_str(pattern_str) IN
        /\ pattern' = parsed.pattern
        /\ err' = parsed.err
        /\ npc' = IF parsed.ok THEN "parsed" ELSE "invalid"
    /\ UNCHANGED <<pc, top, content, doc, flow, par, list, styles, log, inp, result>>
    /\ UNCHANGED <<deepest, accepts>>
    /\ UNCHANGED mvars
    /\ UNCHANGED <<pattern_str, numbers, fmt, kind, case, number, rendered>>

\* Numbering::trimmed
trimmed ==
    /\ npc = "parsed"
    /\ UNCHANGED cvars
    /\ ~pattern.trimmed
    /\ pattern' = Numbering_trimmed(pattern)
    /\ UNCHANGED <<mvars, rvars, npc, pattern_str, numbers, fmt, kind, case, number, rendered>>

\* NumberingPattern::apply
apply ==
    /\ npc = "parsed"
    /\ UNCHANGED cvars
    /\ \E ns \in NumberLists :
        /\ numbers' = ns
        /\ fmt' = NumberingPattern_apply(pattern, ns)
    /\ npc' = "applied"
    /\ UNCHANGED <<mvars, rvars, pattern_str, pattern, kind, case, number, rendered>>

\* cast_to_value! of a NumberingPattern
cast_to_value ==
    /\ npc = "parsed"
    /\ UNCHANGED cvars
    /\ rendered' = NumberingPattern_into_value(pattern)
    /\ npc' = "value"
    /\ UNCHANGED <<mvars, rvars, pattern_str, pattern, numbers, fmt, kind, case, number>>

\* NumberingKind::apply
kind_apply ==
    /\ npc = "kind"
    /\ UNCHANGED cvars
    /\ rendered' = NumberingKind_apply(kind, number, case)
    /\ npc' = "rendered"
    /\ UNCHANGED <<mvars, rvars, pattern_str, pattern, numbers, fmt, kind, case, number>>

NextNum ==
    \/ from_str
    \/ trimmed
    \/ apply
    \/ cast_to_value
    \/ kind_apply

SpecNum == InitNum /\ [][NextNum]_vars

(***************************************************************************)
(* The calls of Corners<Option<T>>::cast and of the conversion to a Value  *)
(***************************************************************************)

\* The key sets of the dictionaries cast: of the expected keys and a
\* foreign one.
KeySets(n) ==
    {K \in SUBSET (ExpectedKeys \cup {"middle"}) : Cardinality(K) <= n}

\* Dictionaries of values of T, and small ones with entries that are no T.
Dicts ==
    UNION {[K -> 1..MaxValue] : K \in KeySets(MaxKeys)}
        \cup UNION {[K -> {NotT, 1}] : K \in KeySets(2)}

Values == {DictValue(d) : d \in Dicts} \cup {TValue(v) : v \in 1..MaxValue}
              \cup {OtherValue}

AllCorners ==
    [top_left : 0..MaxValue, top_right : 0..MaxValue,
     bottom_right : 0..MaxValue, bottom_left : 0..MaxValue]

InitCast ==
    /\ NumberingIdle
    /\ MeasureIdle
    /\ pc = "idle"
    /\ top = FALSE
    /\ content = NoResult
    /\ doc = NoDoc
    /\ flow = FlowBuilder_default
    /\ par = ParBuilder_default
    /\ list = ListBuilder_default
    /\ styles = DefaultChain
    /\ err = NoErr
    /\ log = <<>>
    /\ deepest = 0
    /\ accepts = 0
    /\ inp = <<>>
    /\ result = NoResult
    /\ cast_result = CastErr
    /\ \/ /\ cpc = "value"
          /\ value \in Values
          /\ corners = Corners_splat(NoneT)
       \/ /\ cpc = "corners"
          /\ value = OtherValue
          /\ corners \in AllCorners

\* value = corners.into()
into_value ==
    /\ cpc = "corners"
    /\ cpc' = "converted"
    /\ value' = Corners_into_value(corners)
    /\ UNCHANGED <<corners, cast_result>>
    /\ UNCHANGED <<rvars, nvars, mvars>>

\* Corners::<Option<T>>::cast(value), of a given value or of a converted one
cast ==
    /\ cpc \in {"value", "converted"}
    /\ cpc' = IF cpc = "value" THEN "cast" ELSE "back"
    /\ cast_result' = Corners_cast(value)
    /\ UNCHANGED <<value, corners>>
    /\ UNCHANGED <<rvars, nvars, mvars>>

NextCast ==
    \/ into_value
    \/ cast

SpecCast == InitCast /\ [][NextCast]_vars

(***************************************************************************)
(* Observations used by the properties                                     *)
(***************************************************************************)

InpKinds == [i \in 1..Len(inp) |-> inp[i].c.kind]

AllLeaves == \A i \in 1..Len(inp) : inp[i].ev = "leaf"

InpContents == [i \in 1..Len(inp) |-> inp[i].c]

Built == pc = "done" /\ content.kind = "sequence"

RECURSIVE ConcatFlows(_)
ConcatFlows(pages) ==
    IF pages = <<>> THEN <<>>
    ELSE (IF pages[1].kids = <<>> THEN <<>> ELSE pages[1].kids[1].kids)
             \o ConcatFlows(Tail(pages))

\* The children of the realized flow (of all page flows for a document).
FlowKids(r) ==
    IF r.kind = "flow" THEN r.kids
    ELSE IF r.kind = "document" THEN ConcatFlows(r.kids)
    ELSE <<>>

NotSpacing(e) == e.kind # "v"

Blocks(r) == SelectSeq(FlowKids(r), NotSpacing)

IsContainer(e) == e.kind \in ContainerKinds

Container(k, items, tight) ==
    [Content(ContainerOf(k)) EXCEPT !.kids = items, !.tight = tight]

(***************************************************************************)
(* C1                                                                      *)
(***************************************************************************)

\* The input is one or more items of kind k, a parbreak, and a text.
ItemsParbreakText(k) ==
    /\ Built
    /\ AllLeaves
    /\ Len(inp) >= 3
    /\ \A i \in 1..(Len(inp) - 2) : InpKinds[i] = k
    /\ InpKinds[Len(inp) - 1] = "parbreak"
    /\ InpKinds[Len(inp)] = "text"

ListThenPar(k, tight) ==
    Blocks(result) =
        << Container(k, SubSeq(InpContents, 1, Len(inp) - 2), tight),
           ParElem(<<inp[Len(inp)].c>>) >>

\* C1 as stated: items followed by a parbreak and a text give one list
\* container with tight = false, followed by a paragraph holding the text.
C1_Original ==
    \A k \in ItemKinds : ItemsParbreakText(k) => ListThenPar(k, FALSE)

\* C1 amended: items followed by a parbreak and a text give one list
\* container holding the items with tight = true (a parbreak after the last
\* item does not loosen the list), followed by a paragraph holding the text.
C1_TrailingParbreakKeepsTight ==
    \A k \in ItemKinds : ItemsParbreakText(k) => ListThenPar(k, TRUE)

C1_Witness == ~top /\ ItemsParbreakText("list_item")

(***************************************************************************)
(* C2                                                                      *)
(***************************************************************************)

\* The input is items of kind k, spaces and parbreaks, with at least one item.
ItemRun(k) ==
    /\ Built
    /\ AllLeaves
    /\ \A i \in 1..Len(inp) : InpKinds[i] \in {k, "space", "parbreak"}
    /\ \E i \in 1..Len(inp) : InpKinds[i] = k

IsItem(c) == c.kind \in ItemKinds

InpItems == SelectSeq(InpContents, IsItem)

ParbreakBetweenItems ==
    \E i, j, m \in 1..Len(inp) :
        /\ i < j /\ j < m
        /\ IsItem(inp[i].c) /\ inp[j].c.kind = "parbreak" /\ IsItem(inp[m].c)

Containers(r) == SelectSeq(FlowKids(r), IsContainer)

\* C2: N items of one kind separated only by spaces and parbreaks give
\* exactly one container holding the N items in input order, whose tight
\* flag is true iff no parbreak appeared between two of the items.
C2_OneContainer ==
    \A k \in ItemKinds :
        ItemRun(k) =>
            Containers(result) = <<Container(k, InpItems, ~ParbreakBetweenItems)>>

C2_Witness ==
    ItemRun("enum_item") /\ Len(InpItems) = 2 /\ ParbreakBetweenItems

(***************************************************************************)
(* C4                                                                      *)
(***************************************************************************)

DocAccepted(i) == log[i].op = "doc"

StrongPagebreak(c) == c.kind = "pagebreak" /\ ~c.weak

\* The value of keep_next right after the i-th accept is the recorded one,
\* and it is the current one when nothing was accepted since.
KeepAfter(i, v) ==
    /\ log[i].keep = v
    /\ (i = Len(log) => doc.keep_next = v)

\* C4 as stated: keep_next is false right after a non-weak pagebreak was
\* accepted and right after a page was pushed.
C4_Original ==
    top =>
        \A i \in 1..Len(log) :
            (DocAccepted(i) /\ (StrongPagebreak(log[i].c) \/ log[i].c.kind = "page"))
                => KeepAfter(i, FALSE)

\* C4 amended: right after the DocBuilder accepted a pagebreak keep_next is
\* the negation of its weak flag (true after a non-weak pagebreak, false
\* after a weak one); right after a page was pushed keep_next is false.
C4_KeepNextAfterAccept ==
    top =>
        \A i \in 1..Len(log) :
            DocAccepted(i) =>
                /\ log[i].c.kind = "page" => KeepAfter(i, FALSE)
                /\ log[i].c.kind = "pagebreak" => KeepAfter(i, ~log[i].c.weak)

C4_Witness ==
    /\ top
    /\ \E i, j \in 1..Len(log) :
        /\ DocAccepted(i) /\ log[i].c.kind = "page"
        /\ DocAccepted(j) /\ StrongPagebreak(log[j].c)
        /\ i < j
        /\ j = Len(log)
        /\ doc.keep_next

(***************************************************************************)
(* C6                                                                      *)
(***************************************************************************)

IsPageOfFlow(e) == e.kind = "page" /\ (e.kids = <<>> \/ e.kids[1].kind = "flow")

\* C6: whenever realize_root succeeds the returned node is a document
\* element, and a document built by the DocBuilder is made of pages.
C6_RootIsDocument ==
    (pc = "done" /\ top) =>
        /\ result.kind = "document"
        /\ \A i \in 1..Len(result.kids) : IsPageOfFlow(result.kids[i])

C6_Witness ==
    /\ pc = "done" /\ top
    /\ content.kind = "sequence"
    /\ Len(result.kids) = 2

(***************************************************************************)
(* C7                                                                      *)
(***************************************************************************)

\* One paragraph per maximal run of inline elements between parbreaks.
RECURSIVE ParRuns(_, _)
ParRuns(cs, run) ==
    IF cs = <<>> THEN (IF run = <<>> THEN <<>> ELSE <<ParElem(run)>>)
    ELSE IF cs[1].kind = "parbreak" THEN
        (IF run = <<>> THEN <<>> ELSE <<ParElem(run)>>) \o ParRuns(Tail(cs), <<>>)
    ELSE ParRuns(Tail(cs), Append(run, cs[1]))

InlineInput ==
    /\ Built
    /\ ~top
    /\ AllLeaves
    /\ \A i \in 1..Len(inp) : InpKinds[i] \in {"text", "space", "parbreak"}

\* C7: at block realization, inline elements split by parbreaks give a flow
\* with one paragraph per maximal run of inlines, in input order, each
\* holding exactly the inlines of its run in order.
C7_ParagraphPerRun ==
    InlineInput =>
        /\ result.kind = "flow"
        /\ Blocks(result) = ParRuns(InpContents, <<>>)

C7_Witness ==
    /\ InlineInput
    /\ InpKinds = <<"text", "parbreak", "text">>
    /\ Len(Blocks(result)) = 2

(***************************************************************************)
(* C9                                                                      *)
(***************************************************************************)

LastIsLeaf == inp # <<>> /\ inp[Len(inp)].ev = "leaf"

LastLeaf == inp[Len(inp)].c

\* Kinds no scope builder takes, DocBuilder included.
NowhereKinds == {"document"}

\* C9: an element all scope builders reject makes accept fail, with the
\* pagebreak diagnostic for a pagebreak (only without DocBuilder) and with
\* "<kind> is not allowed here" otherwise; every other element is accepted;
\* the DocBuilder accepts only pagebreak and page elements.
C9_RejectedElementFails ==
    /\ LastIsLeaf =>
        err = IF LastLeaf.kind = "pagebreak" /\ ~top THEN ErrPagebreak
              ELSE IF LastLeaf.kind \in NowhereKinds \/ (LastLeaf.kind = "page" /\ ~top)
                   THEN LastLeaf.kind \o " is not allowed here"
              ELSE NoErr
    /\ (err # NoErr) = (pc = "failed")
    /\ \A i \in 1..Len(log) :
        DocAccepted(i) => log[i].c.kind \in {"pagebreak", "page"}

C9_Witness ==
    /\ top
    /\ LastIsLeaf
    /\ LastLeaf.kind = "document"
    /\ err = "document is not allowed here"
    /\ \E i \in 1..Len(log) : DocAccepted(i)

(***************************************************************************)
(* C10                                                                     *)
(***************************************************************************)

\* This step enters a styled subtree with local map m.
Entering(m) == inp' = Append(inp, EnterEv(m))

\* C10 as stated: without DocBuilder, a local map that sets document
\* properties fails with the document diagnostic and one that sets page
\* properties fails with the page diagnostic.
C10_Original ==
    [][\A m \in LocalMaps :
        (Entering(m) /\ ~top) =>
            /\ interruption(m, "document") => err' = ErrDocContainer
            /\ interruption(m, "page") => err' = ErrPageContainer]_vars

\* C10 amended: without DocBuilder, a local map that sets document
\* properties fails with the document diagnostic, one that sets page
\* properties and no document properties fails with the page diagnostic;
\* in both cases the builders are left as they were and nothing is accepted
\* afterwards.
C10_ContainerSetRules ==
    [][/\ \A m \in LocalMaps :
            (Entering(m) /\ ~top) =>
                /\ interruption(m, "document") => err' = ErrDocContainer
                /\ (interruption(m, "page") /\ ~interruption(m, "document"))
                        => err' = ErrPageContainer
                /\ (interruption(m, "page") \/ interruption(m, "document"))
                        => /\ pc' = "failed"
                           /\ UNCHANGED <<doc, flow, par, list, log>>
       /\ pc = "failed" => UNCHANGED vars]_vars

C10_Witness ==
    /\ ~top
    /\ pc = "failed"
    /\ err = ErrPageContainer
    /\ log # <<>>

(***************************************************************************)
(* C11                                                                     *)
(***************************************************************************)

\* Elements that count as content for a document set rule.
ContentKinds ==
    {"text", "block", "heading", "math", "meta",
     "list_item", "enum_item", "term_item"}

\* The i-th event of the input ends a page: a pagebreak, a page element, or
\* a styled subtree whose local map sets page (and no document) properties.
PageBoundary(i) ==
    IF inp[i].ev = "leaf" THEN inp[i].c.kind \in {"pagebreak", "page"}
    ELSE interruption(inp[i].map, "page") /\ ~interruption(inp[i].map, "document")

ContentAt(i, kinds) == inp[i].ev = "leaf" /\ inp[i].c.kind \in kinds

\* Some element of the given kinds was traversed.
ContentBefore(kinds) == \E i \in 1..Len(inp) : ContentAt(i, kinds)

\* Some element of the given kinds was traversed after the last page
\* boundary.
ContentPending(kinds) ==
    \E i \in 1..Len(inp) :
        /\ ContentAt(i, kinds)
        /\ \A j \in (i + 1)..Len(inp) : ~PageBoundary(j)

EnteringDocumentRule(m) ==
    Entering(m) /\ top /\ interruption(m, "document")

\* C11 as stated: in a top-level build, entering a styled subtree whose
\* local map sets document properties fails with "document set rules must
\* appear before any content" whenever a content element was accepted
\* earlier in the realization, and succeeds when none was.
C11_Original ==
    [][\A m \in LocalMaps :
        EnteringDocumentRule(m) =>
            /\ ContentBefore(ContentKinds) => err' = ErrDocContent
            /\ ~ContentBefore(ContentKinds \cup {"space"}) => err' = NoErr]_vars

\* C11 amended: in a top-level build, entering a styled subtree whose local
\* map sets document properties fails with "document set rules must appear
\* before any content" whenever a content element was accepted since the
\* last page boundary (it is still held by the flow, paragraph or list
\* builder), and succeeds when none was: content already flushed into a page
\* does not count.
C11_DocumentRuleBeforePendingContent ==
    [][\A m \in LocalMaps :
        EnteringDocumentRule(m) =>
            /\ ContentPending(ContentKinds) =>
                    /\ err' = ErrDocContent
                    /\ pc' = "failed"
            /\ ~ContentPending(ContentKinds \cup {"space"}) =>
                    /\ err' = NoErr
                    /\ pc' = "accept"]_vars

C11_Witness ==
    /\ top
    /\ Len(inp) = 3
    /\ ContentAt(1, {"text"})
    /\ ContentAt(2, {"pagebreak"})
    /\ inp[3] = EnterEv({"document"})
    /\ err = NoErr
    /\ Len(doc.pages) = 1

(***************************************************************************)
(* C12                                                                     *)
(***************************************************************************)

ListEmpty(l) == l.items = <<>> /\ l.staged = <<>>

LastIsStyled == inp # <<>> /\ inp[Len(inp)].ev \in {"enter", "exit"}

\* The local map makes interrupt_style run interrupt_list (directly, or
\* through interrupt_par or interrupt_page).
InterruptsList(m) ==
    /\ ~interruption(m, "document")
    /\ \E k \in {"page", "par", "list"} : interruption(m, k)

\* C12: after interrupt_list returned successfully the ListBuilder holds no
\* items and no staged entries: for the call made on any reachable builder,
\* and in the state a styled subtree's interruption or the end of the
\* realization leaves behind.
C12_ListEmptyAfterInterrupt ==
    /\ LET b == interrupt_list(B) IN b.err = NoErr => ListEmpty(b.list)
    /\ (LastIsStyled /\ InterruptsList(inp[Len(inp)].map) /\ err = NoErr)
            => ListEmpty(list)
    /\ pc = "done" => ListEmpty(list)

C12_Witness ==
    /\ Len(inp) = 3
    /\ ContentAt(1, {"list_item"})
    /\ ContentAt(2, {"space"})
    /\ inp[3] = EnterEv({"list"})
    /\ err = NoErr
    /\ ListEmpty(list)
    /\ Len(Containers(FlowElem(BehavedBuilder_finish(flow.elems).children))) = 1

(***************************************************************************)
(* C13                                                                     *)
(***************************************************************************)

\* This step traverses a leaf element.
LeafStep == Len(inp') = Len(inp) + 1 /\ inp'[Len(inp')].ev = "leaf"

NextLeaf == inp'[Len(inp')].c

\* What the scope builders accepted during this step, in call order.
NewLog == SubSeq(log', Len(log) + 1, Len(log'))

\* Paragraphs and pages the interrupts synthesize on the way.
Outside(c) == ~(c.kind \in {"par", "page"} /\ c.id = 0)

NewAccepted == SelectSeq([i \in 1..Len(NewLog) |-> NewLog[i].c], Outside)

NoParbreak(entries) ==
    \A i \in 1..Len(entries) : entries[i].c.kind # "parbreak"

\* The container the open list is finished into.
OpenContainer ==
    Container(list.items[1].c.kind, Contents(list.items), list.tight)

\* The container first, then the staged entries in their order.
FlushedFirst(seq) ==
    /\ Len(seq) >= 1 + Len(list.staged)
    /\ SubSeq(seq, 1, 1 + Len(list.staged))
            = <<OpenContainer>> \o Contents(list.staged)

\* C13: staged spaces and parbreaks exist only while their list is open. An
\* item of the list's kind absorbs them (they are dropped, the list loosened
\* if one was a parbreak); any other element that is not staged itself
\* flushes the list: the container is re-accepted first, then every staged
\* entry in its order, and only then the element that caused the flush. A
\* styled subtree or the end of realization flushes in the same order.
C13_StagedAbsorbedOrReaccepted ==
    [][/\ list.staged # <<>> => list.items # <<>>
       /\ (list.items # <<>> /\ LeafStep) =>
            IF NextLeaf.kind = list.items[1].c.kind THEN
                /\ Contents(list'.items) = Append(Contents(list.items), NextLeaf)
                /\ list'.staged = <<>>
                /\ list'.tight = (list.tight /\ NoParbreak(list.staged))
                /\ NewAccepted = <<NextLeaf>>
                /\ UNCHANGED <<flow, par, doc>>
            ELSE IF NextLeaf.kind \in {"space", "parbreak"} THEN
                /\ Contents(list'.staged) = Append(Contents(list.staged), NextLeaf)
                /\ list'.items = list.items
                /\ UNCHANGED <<flow, par, doc>>
            ELSE
                /\ FlushedFirst(NewAccepted)
                /\ LET rest == SubSeq(NewAccepted, 2 + Len(list.staged),
                                      Len(NewAccepted))
                   IN /\ Len(rest) = IF err' = NoErr THEN 1 ELSE 0
                      /\ \A i \in 1..Len(rest) :
                            \/ rest[i].id = NextLeaf.id
                            \/ rest[i].kids = <<NextLeaf>>
       /\ (list.items # <<>> /\ ~LeafStep /\ list' # list) =>
            NewAccepted = <<OpenContainer>> \o Contents(list.staged)]_vars

C13_Witness ==
    /\ ~top
    /\ pc = "accept"
    /\ AllLeaves
    /\ InpKinds = <<"enum_item", "parbreak", "text">>
    /\ [i \in 1..Len(log) |-> log[i].op] = <<"list", "list", "flow", "flow", "par">>
    /\ [i \in 1..Len(log) |-> log[i].c.kind]
            = <<"enum_item", "parbreak", "enum", "parbreak", "text">>

(***************************************************************************)
(* C14                                                                     *)
(***************************************************************************)

\* All items of the open list have the kind of the first one.
OneKind(l) ==
    \A i \in 1..Len(l.items) : l.items[i].c.kind = l.items[1].c.kind

\* The input is a list item followed by an enum item.
ListItemThenEnumItem ==
    Built /\ AllLeaves /\ InpKinds = <<"list_item", "enum_item">>

\* C14: the items held by the ListBuilder always have the kind of its first
\* item; an item of another kind finishes the open list into its own
\* container and then starts a fresh list holding just that item, so a list
\* item followed by an enum item gives a list container followed by an enum
\* container.
C14_ListHoldsOneKind ==
    [][/\ OneKind(list')
       /\ (/\ list.items # <<>>
           /\ LeafStep
           /\ NextLeaf.kind \in ItemKinds
           /\ NextLeaf.kind # list.items[1].c.kind) =>
                /\ FlushedFirst(NewAccepted)
                /\ NewAccepted[Len(NewAccepted)] = NextLeaf
                /\ NewLog[Len(NewLog)].op = "list"
                /\ Contents(list'.items) = <<NextLeaf>>
                /\ list'.staged = <<>>
                /\ list'.tight
                /\ err' = NoErr
       /\ ListItemThenEnumItem' =>
            Containers(result') =
                << Container("list_item", <<inp[1].c>>, TRUE),
                   Container("enum_item", <<inp[2].c>>, TRUE) >>]_vars

C14_Witness ==
    /\ ListItemThenEnumItem
    /\ ~top
    /\ Len(Containers(result)) = 2
    /\ Containers(result)[1].kind = "list"
    /\ Containers(result)[2].kind = "enum"

(***************************************************************************)
(* C15                                                                     *)
(***************************************************************************)

\* C15: interruption flushes the scopes from the inside out: after
\* interrupt_par the list and the paragraph are empty, after interrupt_page
\* with a DocBuilder the flow is empty as well; whenever the FlowBuilder
\* took an element the list and paragraph builders were empty, whenever the
\* ParBuilder took one the list builder was empty, and whenever the
\* DocBuilder took one the flow, paragraph and list builders were empty.
C15_InnerScopesFlushedFirst ==
    /\ LET b == interrupt_par(B) IN
        b.err = NoErr => ListEmpty(b.list) /\ BehavedBuilder_is_empty(b.par)
    /\ LET b == interrupt_page(B, None) IN
        b.err = NoErr =>
            /\ ListEmpty(b.list)
            /\ BehavedBuilder_is_empty(b.par)
            /\ b.doc.on => BehavedBuilder_is_empty(b.flow.elems)
    /\ \A i \in 1..Len(log) :
        /\ log[i].op = "par" => log[i].list_empty
        /\ log[i].op = "flow" => log[i].list_empty /\ log[i].par_empty
        /\ log[i].op = "doc" =>
            log[i].list_empty /\ log[i].par_empty /\ log[i].flow_empty

C15_Witness ==
    /\ top
    /\ AllLeaves
    /\ InpKinds = <<"list_item", "text", "pagebreak">>
    /\ [i \in 1..Len(log) |-> log[i].op]
            = <<"list", "flow", "par", "flow", "doc", "doc">>

(***************************************************************************)
(* C16                                                                     *)
(***************************************************************************)

\* A page interrupt_page synthesized from the flow.
EmittedPage(e) == e.op = "doc" /\ e.c.kind = "page" /\ e.c.id = 0

\* The pages emitted during this step.
NewPages == SelectSeq(NewLog, EmittedPage)

EmptyPage(e) == e.c.kids[1].kids = <<>>

\* The most recent pagebreak was weak and nothing but parbreaks and styled
\* subtree boundaries came after it.
WeakPagebreakPending ==
    \E i \in 1..Len(inp) :
        /\ ContentAt(i, {"pagebreak"})
        /\ inp[i].c.weak
        /\ \A j \in (i + 1)..Len(inp) :
            inp[j].ev = "leaf" => inp[j].c.kind = "parbreak"

NoContentStep == LeafStep => NextLeaf.kind \in {"pagebreak", "parbreak"}

\* C16: at top level, when the most recent pagebreak was weak and no content
\* was accepted since, the next page boundary (a pagebreak, a page set rule,
\* the end of the document) emits no page; a page with an empty flow is only
\* ever emitted when keep_next was true.
C16_WeakPagebreakKeepsNoPage ==
    [][top =>
        /\ (WeakPagebreakPending /\ NoContentStep) =>
                /\ NewPages = <<>>
                /\ Len(doc'.pages) = Len(doc.pages)
                /\ pc' = "done" => Len(result'.kids) = Len(doc.pages)
        /\ \A i \in 1..Len(NewPages) :
                EmptyPage(NewPages[i]) => doc.keep_next]_vars

C16_Witness ==
    /\ top
    /\ pc = "done"
    /\ AllLeaves
    /\ InpKinds = <<"text", "pagebreak">>
    /\ inp[2].c.weak
    /\ Len(result.kids) = 1

(***************************************************************************)
(* C17                                                                     *)
(***************************************************************************)

IsBlockOrPar(c) == CanLayout(c) \/ c.kind = "par"

FlowAccepted(e) == e.op = "flow" /\ IsBlockOrPar(e.c)

\* The blocks and paragraphs the FlowBuilder accepted, in order.
FlowBlocks ==
    LET taken == SelectSeq(log, FlowAccepted)
    IN [i \in 1..Len(taken) |-> taken[i].c]

\* C17: in a completed flow every block or paragraph the FlowBuilder
\* accepted is stored, in acceptance order, right after the spacing above it
\* and right before the spacing below it; no parbreak is stored.
C17_MarginTriplets ==
    pc = "done" =>
        LET kids == FlowKids(result) IN
        /\ SelectSeq(kids, IsBlockOrPar) = FlowBlocks
        /\ \A i \in 1..Len(kids) :
            /\ kids[i].kind # "parbreak"
            /\ IsBlockOrPar(kids[i]) =>
                /\ i > 1 /\ kids[i - 1] = VElem("above")
                /\ i < Len(kids) /\ kids[i + 1] = VElem("below")

C17_Witness ==
    /\ Built
    /\ ~top
    /\ InpKinds = <<"block", "parbreak", "block">>
    /\ FlowKids(result) =
            << VElem("above"), inp[1].c, VElem("below"),
               VElem("above"), inp[3].c, VElem("below") >>

(***************************************************************************)
(* C18                                                                     *)
(***************************************************************************)

IsPrefix(s, t) == Len(s) <= Len(t) /\ SubSeq(t, 1, Len(s)) = s

\* C18: measure calls provider.save before the layout and provider.restore
\* exactly once after it, whether the layout returned a fragment or an
\* error; the provider is then as it was before the call, and measure
\* returns the layout's result unchanged.
C18_MeasureRestores ==
    /\ IsPrefix(calls, <<"save", "layout", "restore">>)
    /\ mpc = "returned" =>
        /\ calls = <<"save", "layout", "restore">>
        /\ provider = before
        /\ returned = outcome
        /\ outcome \in LayoutOutcomes

C18_Witness ==
    /\ mpc = "returned"
    /\ ~returned.ok
    /\ returned = Err("layout error")
    /\ calls = <<"save", "layout", "restore">>
    /\ Len(before.hashes) = 1
    /\ provider = before

(***************************************************************************)
(* C19                                                                     *)
(***************************************************************************)

\* Elements the interrupts synthesize and re-accept.
Synthesized(c) == c.id = 0 /\ c.kind \in ContainerKinds \cup {"par", "page"}

\* The scope that takes a re-accepted element.
OuterScope(c) == IF c.kind = "page" THEN "doc" ELSE "flow"

\* C19: Builder::accept terminates on every element: the calls of accept
\* made for one element nest at most four deep (the element, its realized
\* form, a re-accepted list container, a re-accepted paragraph), their
\* number is bounded by the entries staged so far, and every list container,
\* paragraph and page the interrupts re-accept is taken by an outer scope
\* (flow or document) and never fails.
C19_AcceptTerminates ==
    /\ deepest <= 4
    /\ accepts <= 2 * Len(inp) + 4
    /\ \A i \in 1..Len(log) :
        Synthesized(log[i].c) => log[i].op = OuterScope(log[i].c)
    /\ \A k \in ContainerKinds \cup {"par", "page"} :
        LastIsLeaf /\ LastLeaf.kind # k => err # ErrNotAllowed(Content(k))
    /\ ~LastIsLeaf => err \in {NoErr, ErrDocContainer, ErrDocContent, ErrPageContainer}

C19_Witness ==
    /\ top
    /\ deepest = 4
    /\ accepts = 4
    /\ err = NoErr
    /\ LastIsLeaf
    /\ LastLeaf.kind = "heading"
    /\ \E i, j, k \in 1..Len(log) :
        /\ i < j /\ j < k
        /\ log[i].c.kind = "par"
        /\ log[j].c.kind \in ContainerKinds
        /\ log[k].c.kind = "block"

(***************************************************************************)
(* C20                                                                     *)
(***************************************************************************)

\* The i-th event of the input is one the builder cannot take: a document
\* element anywhere, a pagebreak, page element, document set rule or page
\* set rule inside a container.
Offending(i) ==
    IF inp[i].ev = "leaf" THEN
        \/ inp[i].c.kind = "document"
        \/ ~top /\ inp[i].c.kind \in {"pagebreak", "page"}
    ELSE IF inp[i].ev = "enter" THEN
        ~top /\ (interruption(inp[i].map, "document")
                    \/ interruption(inp[i].map, "page"))
    ELSE FALSE

\* The diagnostic of an offending event.
Diagnostic(i) ==
    IF inp[i].ev = "leaf" THEN
        IF inp[i].c.kind = "pagebreak" THEN ErrPagebreak
        ELSE ErrNotAllowed(inp[i].c)
    ELSE IF interruption(inp[i].map, "document") THEN ErrDocContainer
    ELSE ErrPageContainer

\* A document set rule after content, at top level.
LateDocumentRule(i) ==
    /\ top
    /\ inp[i].ev = "enter"
    /\ interruption(inp[i].map, "document")

FirstEncounter ==
    /\ \A i \in 1..(Len(inp) - 1) : ~Offending(i)
    /\ (inp # <<>> /\ Offending(Len(inp))) =>
            err = Diagnostic(Len(inp))
    /\ err # NoErr =>
        /\ pc = "failed"
        /\ inp # <<>>
        /\ Offending(Len(inp))
                \/ (LateDocumentRule(Len(inp)) /\ err = ErrDocContent)
        /\ \A i \in 1..Len(log) : log[i].c.id < Len(inp)

\* C20: errors are raised at the first offending element in document order
\* and are fatal: every element before the failing one was taken without
\* error, the diagnostic is the one of the failing element, nothing of the
\* failing element or after it is accepted by any builder, and nothing
\* happens after the failure.
C20_FirstErrorIsFatal ==
    [][/\ FirstEncounter'
       /\ pc = "failed" => UNCHANGED vars]_vars

C20_Witness ==
    /\ ~top
    /\ pc = "failed"
    /\ AllLeaves
    /\ InpKinds = <<"text", "block", "pagebreak">>
    /\ err = ErrPagebreak
    /\ \E i \in 1..Len(log) : log[i].c.id = 2

(***************************************************************************)
(* C21  realize_block passes block-level elements through                  *)
(***************************************************************************)

\* A realize_block call on a single element, past its first step.
BlockCall == pc # "start" /\ ~top /\ content.kind # "sequence"

PassesThrough(c) == CanLayout(c) /\ ~IsShape(c) /\ ~applicable(c)

\* Every Builder::accept that takes an element leaves an entry in the log.
BuilderRan == log # <<>> /\ inp # <<>>

\* C21: realize_block on an element that is block-layoutable, no shape
\* primitive and not applicable returns the element and the style chain
\* unchanged and never runs the builder; on a shape primitive or an
\* applicable element the builder runs and what is returned is a flow
\* element.
C21_BlockPassthrough ==
    BlockCall =>
        /\ PassesThrough(content) =>
            /\ pc = "done"
            /\ result = content
            /\ styles = DefaultChain
            /\ ~BuilderRan
            /\ bvars = <<NoDoc, FlowBuilder_default, ParBuilder_default,
                         ListBuilder_default, NoErr, <<>>, 0, 0>>
        /\ (IsShape(content) \/ applicable(content)) =>
            /\ BuilderRan
            /\ pc \in {"accept", "done"}
            /\ pc = "done" => result.kind = "flow" /\ result # content

C21_Witness ==
    /\ BlockCall
    /\ content.kind = "block"
    /\ pc = "done"
    /\ result = content

(***************************************************************************)
(* C22  what from_str returns                                              *)
(***************************************************************************)

\* The counter characters of a pattern string.
CounterChars == {"1", "a", "A", "i", "I", "*"}

\* The positions of the counter characters of a string, in order.
RECURSIVE CounterPositions(_, _)
CounterPositions(str, i) ==
    IF i > Len(str) THEN <<>>
    ELSE IF str[i] \in CounterChars
         THEN <<i>> \o CounterPositions(str, i + 1)
         ELSE CounterPositions(str, i + 1)

KindOfChar(ch) ==
    IF ch = "1" THEN Arabic
    ELSE IF ch \in {"a", "A"} THEN Letter
    ELSE IF ch \in {"i", "I"} THEN Roman
    ELSE Symbol

\* What from_str returned for pattern_str.
FromStrReturned ==
    LET at == CounterPositions(pattern_str, 1) IN
    /\ npc \in {"parsed", "invalid"}
    /\ (npc = "invalid") <=> (at = <<>>)
    /\ npc = "invalid" => err = ErrInvalidPattern /\ pattern = NoPattern
    /\ npc = "parsed" =>
        /\ err = NoErr
        /\ Len(pattern.pieces) = Len(at)
        /\ \A k \in 1..Len(at) :
            LET from == IF k = 1 THEN 1 ELSE at[k - 1] + 1
                p == pattern.pieces[k]
            IN /\ p.prefix = SubSeq(pattern_str, from, at[k] - 1)
               /\ p.kind = KindOfChar(pattern_str[at[k]])
               /\ (p.case = Upper) <=> (pattern_str[at[k]] \in {"A", "I"})
               /\ p.case \in Cases
        /\ pattern.suffix
               = SubSeq(pattern_str, at[Len(at)] + 1, Len(pattern_str))
        /\ pattern.trimmed = FALSE

\* C22: parsing a pattern string fails with "invalid numbering pattern"
\* exactly when the string has none of the counter characters 1 a A i I *;
\* otherwise it succeeds with one piece per counter character, whose prefix
\* is the text since the previous counter character (or the start), whose
\* kind is that of the character and whose case is upper exactly for A and
\* I, with the text after the last counter character as the suffix and
\* trimmed = false.
C22_FromStr == [][npc = "str" => FromStrReturned']_vars

C22_Witness ==
    /\ npc = "parsed"
    /\ pattern_str = <<"(", "I", ")">>
    /\ pattern.pieces = <<Piece(<<"(">>, Roman, Upper)>>
    /\ pattern.suffix = <<")">>
    /\ ~pattern.trimmed

(***************************************************************************)
(* C23  parsing the rendered pattern                                       *)
(***************************************************************************)

HasCounter(str) == \E i \in 1..Len(str) : str[i] \in CounterChars

\* A pattern was cast to its string, which is now parsed again.
Reparsed == NumberingPattern_from_str(rendered)

\* C23 as stated: parsing the string a pattern renders to gives back the
\* pattern, for every pattern whose suffix has no counter character.
C23_Original ==
    (npc = "value" /\ ~HasCounter(pattern.suffix)) =>
        Reparsed.ok /\ Reparsed.pattern = pattern

\* C23 amended: parsing the string a pattern renders to succeeds and gives
\* back the pieces and the suffix of the pattern, with trimmed = false: it
\* gives back the pattern itself exactly when the pattern is not trimmed.
C23_RoundTrip ==
    (npc = "value" /\ ~HasCounter(pattern.suffix)) =>
        /\ rendered = pattern_str
        /\ Reparsed.ok
        /\ Reparsed.pattern = [pattern EXCEPT !.trimmed = FALSE]
        /\ (Reparsed.pattern = pattern) <=> ~pattern.trimmed

C23_Witness ==
    /\ npc = "value"
    /\ pattern.pieces = <<Piece(<<>>, Letter, Upper), Piece(<<"(">>, Roman, Lower)>>
    /\ pattern.suffix = <<>>
    /\ ~pattern.trimmed
    /\ rendered = <<"A", "(", "i">>
    /\ Reparsed.pattern = pattern

(***************************************************************************)
(* C24  more numbers than pieces                                           *)
(***************************************************************************)

Applied == npc = "applied"

NPieces == Len(pattern.pieces)

LastPiece == pattern.pieces[NPieces]

\* What precedes the i-th number: the prefix of its piece (nothing for the
\* first number of a trimmed pattern); for a number beyond the pieces the
\* prefix of the last piece, or the suffix when that prefix is empty.
Separator(i) ==
    IF i <= NPieces
    THEN IF i = 1 /\ pattern.trimmed THEN <<>> ELSE pattern.pieces[i].prefix
    ELSE IF LastPiece.prefix = <<>> THEN pattern.suffix ELSE LastPiece.prefix

\* The i-th number in the kind and case of its piece, the last piece for
\* the numbers beyond the pieces.
Counter(i) ==
    LET p == pattern.pieces[Min(i, NPieces)]
    IN NumberingKind_apply(p.kind, numbers[i], p.case)

\* The separators and counters of the numbers from..to, in order.
RECURSIVE Numbered(_, _)
Numbered(from, to) ==
    IF from > to THEN <<>>
    ELSE (Separator(from) \o Counter(from)) \o Numbered(from + 1, to)

Closing == IF pattern.trimmed THEN <<>> ELSE pattern.suffix

\* C24: with more numbers than pieces, apply renders each extra number in
\* the kind and case of the last piece, preceded by that piece's prefix or,
\* when that prefix is empty, by the suffix, and appends the suffix once at
\* the end unless trimmed; "1.1)" on (1, 2, 3) gives "1.2.3)".
C24_ExtraNumbersRepeatLastPiece ==
    (Applied /\ Len(numbers) > NPieces) =>
        /\ Text(fmt) = (Numbered(1, NPieces)
                           \o Numbered(NPieces + 1, Len(numbers))) \o Closing
        /\ \A i \in (NPieces + 1)..Len(numbers) :
            /\ Counter(i) = NumberingKind_apply(LastPiece.kind, numbers[i],
                                                LastPiece.case)
            /\ Separator(i) \in {LastPiece.prefix, pattern.suffix}
            /\ Separator(i) = pattern.suffix
                   => LastPiece.prefix \in {<<>>, pattern.suffix}
        /\ (pattern_str = <<"1", ".", "1", ")">> /\ numbers = <<1, 2, 3>>
                /\ ~pattern.trimmed)
               => Text(fmt) = <<"1", ".", "2", ".", "3", ")">>

C24_Witness ==
    /\ Applied
    /\ pattern_str = <<"1", ".", "1", ")">>
    /\ numbers = <<1, 2, 3>>
    /\ ~pattern.trimmed
    /\ Text(fmt) = <<"1", ".", "2", ".", "3", ")">>

(***************************************************************************)
(* C25  at most as many numbers as pieces                                  *)
(***************************************************************************)

\* The parts the pushes of apply came from, in order.
Parts == [i \in 1..Len(fmt) |-> fmt[i].part]

\* The parts of k paired pieces: prefix and number for each, without the
\* first prefix when trimmed, and the suffix at the end unless trimmed.
RECURSIVE PairedParts(_)
PairedParts(k) ==
    IF k = 0 THEN <<>> ELSE PairedParts(k - 1) \o <<"prefix", "number">>

ExpectedParts(k) ==
    LET paired == PairedParts(k)
        first == IF pattern.trimmed /\ k > 0 THEN Tail(paired) ELSE paired
    IN IF pattern.trimmed THEN first ELSE Append(first, "suffix")

\* C25: with k numbers and k at most the number of pieces, apply emits for
\* each i < k the prefix of piece i (not for i = 0 when trimmed) and number
\* i in the kind and case of piece i, nothing of the pieces k and beyond,
\* and then the suffix once unless trimmed; "(i)" on 4 gives "(iv)" and
\* "1.a.i" on (1, 2) gives "1.b".
C25_PairedPieces ==
    (Applied /\ Len(numbers) <= NPieces) =>
        /\ Parts = ExpectedParts(Len(numbers))
        /\ Text(fmt) = Numbered(1, Len(numbers)) \o Closing
        /\ \A i \in 1..Len(numbers) :
            Counter(i) = NumberingKind_apply(pattern.pieces[i].kind, numbers[i],
                                             pattern.pieces[i].case)
        /\ (pattern_str = <<"(", "i", ")">> /\ numbers = <<4>>
                /\ ~pattern.trimmed)
               => Text(fmt) = <<"(", "i", "v", ")">>
        /\ (pattern_str = <<"1", ".", "a", ".", "i">> /\ numbers = <<1, 2>>
                /\ ~pattern.trimmed)
               => Text(fmt) = <<"1", ".", "b">>

C25_Witness ==
    /\ Applied
    /\ pattern_str = <<"1", ".", "a", ".", "i">>
    /\ numbers = <<1, 2>>
    /\ ~pattern.trimmed
    /\ Text(fmt) = <<"1", ".", "b">>

(***************************************************************************)
(* C26  roman numerals by greedy subtraction                               *)
(***************************************************************************)

RomanRendered == npc = "rendered" /\ kind = Roman /\ number >= 1

\* The entries of the greedy table: value and upper-case name, the
\* overline after each letter of the entries from 4000 on.
Over(letters) ==
    [i \in 1..(2 * Len(letters)) |->
        IF i % 2 = 1 THEN letters[(i + 1) \div 2] ELSE "U+0305"]

GreedyTable ==
    << <<1000000, Over(<<"M">>)>>, <<500000, Over(<<"D">>)>>,
       <<100000, Over(<<"C">>)>>, <<50000, Over(<<"L">>)>>,
       <<10000, Over(<<"X">>)>>, <<5000, Over(<<"V">>)>>,
       <<4000, Over(<<"I", "V">>)>>, <<1000, <<"M">>>>, <<900, <<"C", "M">>>>,
       <<500, <<"D">>>>, <<400, <<"C", "D">>>>, <<100, <<"C">>>>,
       <<90, <<"X", "C">>>>, <<50, <<"L">>>>, <<40, <<"X", "L">>>>,
       <<10, <<"X">>>>, <<9, <<"I", "X">>>>, <<5, <<"V">>>>,
       <<4, <<"I", "V">>>>, <<1, <<"I">>>> >>

\* The largest table value not exceeding n.
LargestFitting(n) ==
    CHOOSE v \in {GreedyTable[t][1] : t \in 1..Len(GreedyTable)} :
        /\ v <= n
        /\ \A t \in 1..Len(GreedyTable) :
            GreedyTable[t][1] <= n => GreedyTable[t][1] <= v

NameOf(v) ==
    GreedyTable[CHOOSE t \in 1..Len(GreedyTable) : GreedyTable[t][1] = v][2]

\* The table values greedy subtraction takes from n, in order.
RECURSIVE Greedy(_)
Greedy(n) ==
    IF n = 0 THEN <<>>
    ELSE <<LargestFitting(n)>> \o Greedy(n - LargestFitting(n))

RECURSIVE Sum(_)
Sum(seq) == IF seq = <<>> THEN 0 ELSE seq[1] + Sum(Tail(seq))

RECURSIVE Names(_)
Names(values) ==
    IF values = <<>> THEN <<>> ELSE NameOf(values[1]) \o Names(Tail(values))

\* C26: roman(n) for n >= 1 is the names of the table entries taken by
\* greedy subtraction, each the largest entry not exceeding the remainder,
\* whose values sum to n; roman(4) = IV, roman(9) = IX,
\* roman(3999) = MMMCMXCIX, roman(4000) = the overlined IV entry.
C26_RomanIsGreedy ==
    RomanRendered =>
        /\ LET taken == Greedy(number)
           IN /\ Sum(taken) = number
              /\ rendered = CaseName(Names(taken), case)
        /\ (case = Upper /\ number = 4) => rendered = <<"I", "V">>
        /\ (case = Upper /\ number = 9) => rendered = <<"I", "X">>
        /\ (case = Upper /\ number = 3999)
               => rendered = <<"M", "M", "M", "C", "M", "X", "C", "I", "X">>
        /\ (case = Upper /\ number = 4000)
               => rendered = <<"I", Overline, "V", Overline>>

C26_Witness ==
    /\ RomanRendered
    /\ case = Upper
    /\ number = 3999
    /\ rendered = <<"M", "M", "M", "C", "M", "X", "C", "I", "X">>

(***************************************************************************)
(* C27  symbols                                                            *)
(***************************************************************************)

SymbolRendered == npc = "rendered" /\ kind = Symbol /\ number >= 1

Star == "*"

Dagger == "U+2020"

DoubleDagger == "U+2021"

Section == "U+00A7"

Pilcrow == "U+00B6"

DoubleBar == "U+2016"

SymbolAt(index) ==
    IF index = 0 THEN Star
    ELSE IF index = 1 THEN Dagger
    ELSE IF index = 2 THEN DoubleDagger
    ELSE IF index = 3 THEN Section
    ELSE IF index = 4 THEN Pilcrow
    ELSE DoubleBar

\* ceil(n / d) for n >= 0 and d >= 1.
CeilDiv(n, d) == (n + d - 1) \div d

\* C27: symbol(n) for n >= 1 is the symbol at index (n - 1) mod 6 of
\* *, dagger, double dagger, section, pilcrow, double bar, repeated
\* ceil(n / 6) times; symbol(1) = *, symbol(6) = one double bar,
\* symbol(7) = **, symbol(13) = ***.
C27_SymbolRepeats ==
    SymbolRendered =>
        /\ Len(rendered) = CeilDiv(number, 6)
        /\ \A i \in 1..Len(rendered) : rendered[i] = SymbolAt((number - 1) % 6)
        /\ number = 1 => rendered = <<Star>>
        /\ number = 6 => rendered = <<DoubleBar>>
        /\ number = 7 => rendered = <<Star, Star>>
        /\ number = 13 => rendered = <<Star, Star, Star>>

C27_Witness ==
    /\ SymbolRendered
    /\ number = 13
    /\ rendered = <<Star, Star, Star>>

(***************************************************************************)
(* C28  zero                                                               *)
(***************************************************************************)

ZeroRendered == npc = "rendered" /\ number = 0 /\ case = Lower

\* C28: the number 0 in lower case is rendered as "-" by the letter and the
\* symbol kind, as "N" by the roman kind and as "0" by the arabic kind.
C28_Zero ==
    ZeroRendered =>
        /\ kind \in {Letter, Symbol} => rendered = <<"-">>
        /\ kind = Roman => rendered = <<"N">>
        /\ kind = Arabic => rendered = <<"0">>

C28_Witness ==
    /\ ZeroRendered
    /\ kind = Roman
    /\ rendered = <<"N">>

(***************************************************************************)
(* C29  apply is total                                                     *)
(***************************************************************************)

\* The characters a rendered number is made of.
CounterAlphabet ==
    {Digits[i] : i \in 1..Len(Digits)}
        \cup {LowerLetters[i] : i \in 1..Len(LowerLetters)}
        \cup {UpperLetters[i] : i \in 1..Len(UpperLetters)}
        \cup {SYMBOLS[i] : i \in 1..Len(SYMBOLS)}
        \cup {Overline, "-"}

\* The number of pushes apply makes for k numbers.
Pushes(k) ==
    2 * k - (IF pattern.trimmed /\ k > 0 THEN 1 ELSE 0)
          + (IF pattern.trimmed THEN 0 ELSE 1)

\* Every operation of the rendering of n that could fail is within its
\* range: the subtraction of 1 is not applied to 0, the letter digit fits a
\* byte, the symbol index is inside the table.
Unfailing(k, n) ==
    /\ n \in Nat
    /\ (k # Arabic /\ n # 0) => n - 1 >= 0
    /\ (k = Letter /\ n # 0) => ((n - 1) % 26) \in 0..255
    /\ (k = Symbol /\ n # 0) =>
        /\ (n - 1) % Len(SYMBOLS) < Len(SYMBOLS)
        /\ ((n - 1) \div Len(SYMBOLS)) + 1 >= 1

\* What apply returned for the numbers ns is a string.
Returns(ns) ==
    LET out == NumberingPattern_apply(pattern, ns) IN
    /\ Len(out) = Pushes(Len(ns))
    /\ \A j \in 1..Len(out) :
        /\ out[j].part \in {"prefix", "number", "suffix"}
        /\ out[j].part = "number" =>
            /\ Len(out[j].text) >= 1
            /\ \A c \in 1..Len(out[j].text) : out[j].text[c] \in CounterAlphabet
    /\ \A i \in 1..Len(ns) :
        Unfailing(pattern.pieces[Min(i, Len(pattern.pieces))].kind, ns[i])

\* C29: for every successfully parsed pattern, trimmed or not, and every
\* list of numbers, the empty list and lists with 0 included, apply
\* returns a string: its loops end after one counter per number and no
\* rendering fails.
C29_ApplyIsTotal ==
    /\ npc = "parsed" => \A ns \in NumberLists : Returns(ns)
    /\ npc = "applied" => Returns(numbers) /\ fmt = NumberingPattern_apply(pattern, numbers)

C29_Witness ==
    /\ npc = "applied"
    /\ pattern.trimmed
    /\ numbers = <<0, 28>>
    /\ Len(pattern.pieces) = 1
    /\ pattern.pieces[1].kind = Symbol
    /\ Len(fmt) = 3

(***************************************************************************)
(* C30  which interruption interrupt_style performs                        *)
(***************************************************************************)

\* This step leaves a styled subtree with local map m.
Exiting(m) == inp' = Append(inp, ExitEv(m))

\* The outer chain interrupt_style is called with on this step.
OuterOf(m) == IF Entering(m) THEN None ELSE Some(styles)

Fields(b) == <<b.doc, b.flow, b.par, b.list, b.err>>

\* The scope builders and the error after this step.
FieldsAfter == <<doc', flow', par', list', err'>>

\* The document checks: without DocBuilder, or with pending content when
\* the subtree is entered, they fail; they never touch the scope builders.
DocumentChecks(b, outer) ==
    IF ~b.doc.on THEN [b EXCEPT !.err = ErrDocContainer]
    ELSE IF ~outer.some
            /\ (b.flow.elems # <<>> \/ b.par # <<>> \/ b.list.items # <<>>)
    THEN [b EXCEPT !.err = ErrDocContent]
    ELSE b

\* C30 as stated: interrupt_style performs the action of every marker kind
\* the local map alters; a map that alters document and page properties in
\* a top-level build runs the document checks and interrupt_page(outer).
C30_Original ==
    [][\A m \in LocalMaps :
        ((Entering(m) \/ Exiting(m)) /\ top
            /\ interruption(m, "document") /\ interruption(m, "page")) =>
                FieldsAfter
                    = IF DocumentChecks(B, OuterOf(m)).err # NoErr
                      THEN Fields(DocumentChecks(B, OuterOf(m)))
                      ELSE Fields(interrupt_page(B, OuterOf(m)))]_vars

\* C30 amended: interrupt_style performs the action of the first marker
\* group, in the order document, page, par or align, list or enum or terms,
\* that the local map alters, and of no other: a map that alters document
\* and page properties runs the document checks only and interrupt_page is
\* not called.
C30_FirstMarkerGroupOnly ==
    [][\A m \in LocalMaps :
        (Entering(m) \/ Exiting(m)) =>
            FieldsAfter
                = IF interruption(m, "document")
                  THEN Fields(DocumentChecks(B, OuterOf(m)))
                  ELSE IF interruption(m, "page")
                  THEN IF top THEN Fields(interrupt_page(B, OuterOf(m)))
                       ELSE Fields([B EXCEPT !.err = ErrPageContainer])
                  ELSE IF interruption(m, "par") \/ interruption(m, "align")
                  THEN Fields(interrupt_par(B))
                  ELSE IF interruption(m, "list") \/ interruption(m, "enum")
                          \/ interruption(m, "terms")
                  THEN Fields(interrupt_list(B))
                  ELSE Fields(B)]_vars

\* A styled subtree that alters document and page properties was left with
\* a text in the paragraph: no page was made of it.
C30_Witness ==
    /\ top
    /\ pc = "accept"
    /\ Len(inp) = 3
    /\ inp[1] = EnterEv({"document", "page"})
    /\ inp[2].ev = "leaf" /\ inp[2].c.kind = "text"
    /\ inp[3] = ExitEv({"document", "page"})
    /\ err = NoErr
    /\ par # <<>>
    /\ doc.pages = <<>>

(***************************************************************************)
(* C31  what interrupt_page emits                                          *)
(***************************************************************************)

\* interrupt_page(outer) called on the builder b: flushed is the builder
\* after the paragraph was flushed, emitted are the pages accepted after
\* that.
PageInterrupted(b, outer) ==
    LET flushed == interrupt_par(b)
        after == interrupt_page(b, outer)
        emitted == SelectSeq(SubSeq(after.log, Len(flushed.log) + 1,
                                    Len(after.log)),
                             EmittedPage)
    IN
    /\ after.err = NoErr
    /\ after.par = <<>>
    /\ after.list.items = <<>>
    /\ IF ~b.doc.on
       THEN /\ emitted = <<>>
            /\ after.flow = flushed.flow
            /\ after.doc = b.doc
       ELSE IF flushed.flow.elems # <<>> \/ (b.doc.keep_next /\ outer.some)
       THEN /\ Len(emitted) = 1
            /\ emitted[1].c
                   = PageElem(FlowElem(
                         BehavedBuilder_finish(flushed.flow.elems).children))
            /\ Len(after.doc.pages) = Len(b.doc.pages) + 1
            /\ after.doc.pages[Len(after.doc.pages)].c = emitted[1].c
            /\ after.flow = FlowBuilder_default
       ELSE /\ emitted = <<>>
            /\ after.doc = b.doc
            /\ after.flow = flushed.flow

\* C31: interrupt_page(outer) first flushes the paragraph; with a
\* DocBuilder it then emits exactly one page wrapping the finished flow
\* when the flow is non-empty or keep_next is true and outer is given,
\* leaving the flow builder empty, and no page otherwise; without a
\* DocBuilder it emits nothing and leaves the content of the flow builder
\* as it is.  Checked for the call on every builder a realization reaches
\* and on the step that ends a top-level realization.
C31_InterruptPage ==
    [][pc = "accept" =>
        /\ PageInterrupted(B, None)
        /\ PageInterrupted(B, Some(styles))
        /\ (top /\ pc' = "done") =>
            Len(result'.kids)
                = Len(doc.pages)
                    + (IF interrupt_par(B).flow.elems # <<>> \/ doc.keep_next
                       THEN 1 ELSE 0)]_vars

C31_Witness ==
    /\ top
    /\ pc = "done"
    /\ AllLeaves
    /\ InpKinds = <<"text", "pagebreak">>
    /\ ~inp[2].c.weak
    /\ Len(result.kids) = 2
    /\ result.kids[2].kids[1].kids = <<>>

(***************************************************************************)
(* C32  list attachment and the parbreak flag                              *)
(***************************************************************************)

\* What the FlowBuilder holds: the stored elements and the parbreak flag.
Held(elems, flag) == [elems |-> elems, flag |-> flag]

IsTightList(c) == c.kind \in ContainerKinds /\ c.tight

ListAttach == VElem("list_attach")

\* The FlowBuilder after one logged acceptance: a parbreak it took sets the
\* flag and stores nothing; a spacing or meta element is stored alone; a
\* block or paragraph is stored between the spacings above and below it,
\* after a list attachment if it is a tight list and the flag is not set;
\* an element the DocBuilder took had been offered to the FlowBuilder
\* before, and a synthesized page took the stored elements with it.
FlowAfter(held, e) ==
    IF e.op = "flow" THEN
        IF e.c.kind = "parbreak" THEN Held(held.elems, TRUE)
        ELSE IF e.c.kind \in {"v", "colbreak", "meta"}
        THEN Held(Append(held.elems, e.c), FALSE)
        ELSE Held(held.elems
                      \o (IF IsTightList(e.c) /\ ~held.flag
                          THEN <<ListAttach>> ELSE <<>>)
                      \o <<VElem("above"), e.c, VElem("below")>>,
                  FALSE)
    ELSE IF e.op = "doc" THEN
        Held(IF EmittedPage(e) THEN <<>> ELSE held.elems, FALSE)
    ELSE held

RECURSIVE FlowAfterAll(_, _)
FlowAfterAll(held, entries) ==
    IF entries = <<>> THEN held
    ELSE FlowAfterAll(FlowAfter(held, entries[1]), Tail(entries))

Stored(f) == [i \in 1..Len(f.elems) |-> f.elems[i].c]

\* C32: the FlowBuilder stores a list attachment spacing right before the
\* above, element, below triplet exactly when the accepted element is a
\* tight list, enum or terms container and the parbreak flag is not set; a
\* parbreak sets the flag and is not stored; any other element clears it.
C32_ListAttach ==
    [][(pc = "accept" /\ err' = NoErr) =>
        LET after == FlowAfterAll(Held(Stored(flow), flow.last_was_parbreak),
                                  NewLog)
        IN /\ Stored(flow') = after.elems
           /\ flow'.last_was_parbreak = after.flag
           /\ \A i \in 1..Len(flow'.elems) :
                /\ Stored(flow')[i].kind # "parbreak"
                /\ Stored(flow')[i] = ListAttach =>
                    /\ i + 2 <= Len(flow'.elems)
                    /\ Stored(flow')[i + 1] = VElem("above")
                    /\ IsTightList(Stored(flow')[i + 2])]_vars

\* A tight list after a text is attached to the paragraph; the same list
\* after a parbreak is not.
C32_Witness ==
    /\ ~top
    /\ pc = "done"
    /\ AllLeaves
    /\ InpKinds = <<"text", "list_item">>
    /\ Len(FlowKids(result)) = 7
    /\ FlowKids(result)[4] = ListAttach
    /\ IsTightList(FlowKids(result)[6])

(***************************************************************************)
(* C33  output order                                                       *)
(***************************************************************************)

\* The input elements found in a sequence of output elements, in output
\* order, by their position in the input: synthesized paragraphs, list
\* containers and equations are opened, synthesized spacing is skipped.
RECURSIVE Origins(_)
Origins(elems) ==
    IF elems = <<>> THEN <<>>
    ELSE LET e == elems[1]
         IN (IF e.id # 0 THEN <<e.id>>
             ELSE IF e.kind \in {"par", "equation"} \cup ContainerKinds
                  THEN Origins(e.kids)
                  ELSE <<>>)
                \o Origins(Tail(elems))

\* Inline elements, list items and block elements.
PlacedKinds ==
    {"text", "space", "math", "meta", "list_item", "enum_item", "term_item",
     "block", "heading"}

Placed(ev) == ev.ev = "leaf" /\ ev.c.kind \in PlacedKinds

\* The positions of the placed elements of the input, in input order.
PlacedInput ==
    LET placed == SelectSeq(inp, Placed)
    IN [i \in 1..Len(placed) |-> placed[i].c.id]

Increasing(seq) == \A i \in 1..(Len(seq) - 1) : seq[i] < seq[i + 1]

\* A space is not kept when it stands between two items of one list.
NotSpace(n) == inp[n].c.kind # "space"

\* A paragraph and a list were open together when the next element
\* flushed them.
ParAndListFlushed ==
    /\ Len(inp) = 3
    /\ AllLeaves
    /\ InpKinds = <<"text", "list_item", "block">>

\* C33: the elements of the finished flow (the inlines of its paragraphs,
\* the items of its list containers, its blocks) stand in the order of the
\* input elements they were built from, also when a paragraph and a list
\* were both open at a flush; every text, item and block of the input is
\* among them, once.
C33_OutputOrder ==
    Built =>
        /\ Increasing(Origins(FlowKids(result)))
        /\ SelectSeq(Origins(FlowKids(result)), NotSpace)
               = SelectSeq(PlacedInput, NotSpace)
        /\ \A i \in 1..Len(Origins(FlowKids(result))) :
            \E j \in 1..Len(PlacedInput) :
                Origins(FlowKids(result))[i] = PlacedInput[j]
        /\ ParAndListFlushed =>
            /\ Len(Blocks(result)) = 3
            /\ Blocks(result)[1].kind = "par"
            /\ Blocks(result)[2].kind = "list"
            /\ Blocks(result)[3].kind = "block"

C33_Witness ==
    /\ Built
    /\ ParAndListFlushed
    /\ Origins(FlowKids(result)) = <<1, 2, 3>>
    /\ Blocks(result)[1].kind = "par"
    /\ Blocks(result)[2].kind = "list"

(***************************************************************************)
(* C34  Casting a dictionary to Corners<Option<T>> resolves each corner by *)
(*      a fixed precedence: its own key, else the adjacent vertical side   *)
(*      (top or bottom), else the adjacent horizontal side (left or        *)
(*      right), else rest, else None; a key other than these nine makes    *)
(*      the cast fail; and converting corners to a Value and casting the   *)
(*      Value back yields the original corners.                            *)
(***************************************************************************)

\* The cast of a given dictionary has returned.
CastOfDict == cpc = "cast" /\ value.tag = "dict"

\* Every entry of the dictionary is a T.
EntriesAreT == \A key \in DOMAIN value.dict : value.dict[key] # NotT

\* The entry of a key of the dictionary cast, None when the key is missing.
GivenEntry(key) == IF key \in DOMAIN value.dict THEN value.dict[key] ELSE NoneT

\* The first of the four entries that is there, None when none is.
FirstOf(own, vertical, horizontal) ==
    IF GivenEntry(own) # NoneT THEN GivenEntry(own)
    ELSE IF GivenEntry(vertical) # NoneT THEN GivenEntry(vertical)
    ELSE IF GivenEntry(horizontal) # NoneT THEN GivenEntry(horizontal)
    ELSE GivenEntry("rest")

Precedence ==
    (CastOfDict /\ EntriesAreT /\ DOMAIN value.dict \subseteq ExpectedKeys) =>
        /\ cast_result.ok
        /\ cast_result.corners.top_left = FirstOf("top-left", "top", "left")
        /\ cast_result.corners.top_right = FirstOf("top-right", "top", "right")
        /\ cast_result.corners.bottom_right =
               FirstOf("bottom-right", "bottom", "right")
        /\ cast_result.corners.bottom_left =
               FirstOf("bottom-left", "bottom", "left")

UnexpectedKeyFails ==
    (CastOfDict /\ ~(DOMAIN value.dict \subseteq ExpectedKeys)) =>
        ~cast_result.ok

RoundTrip == cpc = "back" => cast_result = CastOk(corners)

C34_CornersCast == Precedence /\ UnexpectedKeyFails /\ RoundTrip

(***************************************************************************)
(* C3                                                                      *)
(***************************************************************************)

\* The bijective base-26 numeral of n >= 1 over a..z, most significant
\* digit first.
RECURSIVE Bijective26(_)
Bijective26(n) ==
    IF n = 0 THEN <<>>
    ELSE Bijective26((n - 1) \div 26) \o <<LowerLetters[((n - 1) % 26) + 1]>>

LetterRendered == npc = "rendered" /\ kind = Letter /\ case = Lower /\ number >= 1

\* C3: letter(n) for n >= 1 is the bijective base-26 encoding of n over
\* a..z: letter(1) = a, letter(26) = z, letter(27) = aa, letter(52) = az,
\* letter(53) = ba.
C3_LetterIsBijective ==
    LetterRendered => rendered = Bijective26(number)

(***************************************************************************)
(* C5                                                                      *)
(***************************************************************************)

Max(a, b) == IF a > b THEN a ELSE b

IsNumber(push) == push.part = "number"

Counters == Len(SelectSeq(fmt, IsNumber))

\* C5 as stated: apply on k numbers renders max(k, pieces) counters.
C5_Original ==
    npc = "applied" => Counters = Max(Len(numbers), Len(pattern.pieces))

\* C5 amended: apply on k numbers renders exactly k counters, one per
\* number, for every parsed pattern (trimmed or not) and every k; pieces
\* beyond the k-th are not rendered.
C5_OneCounterPerNumber ==
    npc = "applied" =>
        /\ Counters = Len(numbers)
        /\ \A i \in 1..Len(numbers) :
            LET p == pattern.pieces[Min(i, Len(pattern.pieces))]
            IN SelectSeq(fmt, IsNumber)[i].text
                   = NumberingKind_apply(p.kind, numbers[i], p.case)

C5_Witness ==
    /\ npc = "applied"
    /\ Len(pattern.pieces) = 2
    /\ Len(numbers) = 1
    /\ Counters = 1

====
